---------------------------- MODULE Spec2Model ----------------------------
(***************************************************************************)
(* Domain classification engine of disposable-email-domains: the Bloom     *)
(* filters, the suffix trie, the in-memory result cache, the cache manager *)
(* and the DisposableEmailChecker facade with its DomainChecker.           *)
(*                                                                         *)
(* Strings are sequences of one-character strings, so that split, indexOf, *)
(* slice, toLowerCase and the hash functions are computed as the code      *)
(* computes them.                                                          *)
(***************************************************************************)
EXTENDS Integers, Sequences, FiniteSets, TLC

VARIABLES
    \* ---- Bloom filter under test (bloom-filter.ts / email-validator.ts) ----
    bloomImpl,      \* which of the two BloomFilter classes was constructed
    bloomFilter,    \* bloom-filter.ts instance: size, numHashFunctions, bitArray
    seededBloom,    \* email-validator.ts instance: size, numHashFunctions, byteSize, bitArray
    bloomAdded,     \* history: the items passed to add since construction or clear()
    mergeLast,      \* history: the merge calls made on the seeded filter, and the last one
    \* ---- TrieIndex under test (trie-index.ts / pooled TrieIndex) ----
    trieImpl,       \* which of the two TrieIndex classes was constructed
    trie,           \* the tree: path of labels from the root |-> node
    trieInserted,   \* history: inserted domain |-> source of its last insert
    trieLast,       \* history: the last call made on the trie
    \* ---- MemoryCache under test ----
    memMaxSize,     \* this.maxSize
    memCache,       \* this.cache: the Map's entries in insertion order
    now,            \* Date.now()
    memRecency,     \* history: the cached keys, least recently used (set or hit) first
    memLast,        \* history: the last call made on the cache and what it returned
    \* ---- CacheManager (with request coalescing) over an asynchronous backend ----
    cmStore,        \* the backend's content: key |-> result, "null" when absent
    cmPending,      \* this.pendingOperations: key |-> promise
    cmPromises,     \* the promises made by performGet, in order of creation
    cmCalls,        \* history: the promise each get call returned or awaits
    cmOp,           \* the clear() or close() call in progress and where it stands
    \* ---- CacheManager (with write batching) over a backend that may fail ----
    cbBackend,      \* this.cache: which kind of ICache the manager was given
    cbStore,        \* the backend's content: key |-> result, "null" when absent
    cbCleanupTimer, \* the backend's own periodic timer (MemoryCache.cleanupInterval) is armed
    cbQueue,        \* this.batchSetQueue
    cbTimer,        \* this.batchTimeout is armed
    cbPending,      \* this.pendingOperations: key |-> promise
    cbPromises,     \* the promises made by performGet, in order of creation
    cbCounts,       \* history: writes enqueued, writes handed to setBatch, calls made
    cbOp,           \* the close() call in progress and where it stands
    cbLast,         \* history: the last step taken and, for a settled call, its outcome
    fcAdmin,        \* history: the domains passed to addToAllowlist, and when each domain was last changed
    dcChecker,      \* the DomainChecker under test, as a record
    dcTrieImpl,     \* the class of the TrieIndex it was given
    dcLast,         \* the last call on the checker and its outcome
    hpObjects,      \* the result objects allocated, by reference
    hpArrays,       \* the errors and warnings arrays allocated, by reference
    hpCache,        \* MemoryCache.cache, each entry holding a reference
    hpHeld,         \* the references callers hold
    hpStored,       \* history: per key, the value of the result when it was stored
    hpLast,         \* history: the last call and the value it returned
    wbQueue,        \* batchSetQueue, each write with the time it was enqueued
    wbTimer,        \* batchTimeout: the time it is due, -1 when undefined
    wbNow,          \* the clock of the batching cache manager, in ms
    wbCounts,       \* history: writes enqueued, writes handed to setBatch
    wbLast,         \* history: the last step of the batching cache manager
    tpNodes,        \* the TrieNodes allocated by the pooled class, by reference
    nodePool,       \* nodePool: the references pushed by the tries under test, last pushed last
    tpSpare,        \* the nodes at the bottom of nodePool, returned before the tries under test were made
    tpRoots,        \* this.root of each pooled TrieIndex
    tpSimple,       \* the trie-index.ts TrieIndex given the same calls as each pooled one
    tpLast,         \* history: the last call on a pooled trie, the nodes getPooledNode gave it, what it returned
    smPermits,      \* Semaphore.permits
    waitQueue,      \* Semaphore.waitQueue: the tasks whose resolver is queued, first queued first
    smTasks,        \* each acquire(task) call: where it stands, whether it waited, whether the task threw
    smInitial,      \* history: the permits the Semaphore was constructed with
    factories,      \* CacheFactoryRegistry.factories: type -> the factory registered
    defaultFactory, \* CacheFactoryRegistry.defaultFactory
    rgLast,         \* the last registry call and its outcome
    \* ---- DisposableEmailChecker (the facade) ----
    fcConfig,       \* this.config
    fcData,         \* what the data loader reads: the lists on disk
    fcSets,         \* this.disposableDomainsSet / allowlistSet / blacklistSet
    fcIndex,        \* this.domainTrie / this.bloomFilter
    domainChecker,  \* this.domainChecker
    fcPc,           \* where initialize() / forceUpdate() stands
    resultCache,    \* the MemoryCache behind this.cacheManager
    fcLast          \* history: the last call made on the facade and what it returned

bloomVars == <<bloomImpl, bloomFilter, seededBloom, bloomAdded>>

mergeVars == <<mergeLast>>

trieVars == <<trieImpl, trie, trieInserted, trieLast>>

memVars == <<memMaxSize, memCache, now, memRecency, memLast>>

cmVars == <<cmStore, cmPending, cmPromises, cmCalls, cmOp>>

cbVars == <<cbBackend, cbStore, cbCleanupTimer, cbQueue, cbTimer, cbPending, cbPromises,
            cbCounts, cbOp, cbLast>>

adminVars == <<fcAdmin>>

dcVars == <<dcChecker, dcTrieImpl, dcLast>>

hpVars == <<hpObjects, hpArrays, hpCache, hpHeld, hpStored, hpLast>>

wbVars == <<wbQueue, wbTimer, wbNow, wbCounts, wbLast>>

tpVars == <<tpNodes, nodePool, tpSpare, tpRoots, tpSimple, tpLast>>

smVars == <<smPermits, waitQueue, smTasks, smInitial>>

rgVars == <<factories, defaultFactory, rgLast>>

fcVars == <<fcConfig, fcData, fcSets, fcIndex, domainChecker, fcPc, resultCache, fcLast>>

vars == <<bloomVars, mergeVars, trieVars, memVars, cmVars, cbVars, fcVars, adminVars, dcVars, hpVars, wbVars, tpVars, smVars, rgVars>>

\* what the actions of one component leave alone
nonBloomVars == <<rgVars, smVars, tpVars, wbVars, hpVars, dcVars, adminVars, mergeVars, trieVars, memVars, cmVars, cbVars, fcVars>>
nonTrieVars  == <<rgVars, smVars, tpVars, wbVars, hpVars, dcVars, adminVars, mergeVars, bloomVars, memVars, cmVars, cbVars, fcVars>>
nonMemVars   == <<rgVars, smVars, tpVars, wbVars, hpVars, dcVars, adminVars, mergeVars, bloomVars, trieVars, cmVars, cbVars, fcVars>>
nonCmVars    == <<rgVars, smVars, tpVars, wbVars, hpVars, dcVars, adminVars, mergeVars, bloomVars, trieVars, memVars, cbVars, fcVars>>
nonCbVars    == <<rgVars, smVars, tpVars, wbVars, hpVars, dcVars, adminVars, mergeVars, bloomVars, trieVars, memVars, cmVars, fcVars>>
nonBloomMergeVars == <<rgVars, smVars, tpVars, wbVars, hpVars, dcVars, adminVars, trieVars, memVars, cmVars, cbVars, fcVars>>
nonAdminVars == <<rgVars, smVars, tpVars, wbVars, hpVars, dcVars, mergeVars, bloomVars, trieVars, cmVars, cbVars>>
nonDcVars    == <<rgVars, smVars, tpVars, wbVars, hpVars, adminVars, mergeVars, bloomVars, trieVars, memVars, cmVars, cbVars, fcVars>>
nonHpVars    == <<rgVars, smVars, tpVars, wbVars, dcVars, adminVars, mergeVars, bloomVars, trieVars, memVars, cmVars, cbVars, fcVars>>
nonWbVars    == <<rgVars, smVars, tpVars, hpVars, dcVars, adminVars, mergeVars, bloomVars, trieVars, memVars, cmVars, cbVars, fcVars>>
nonTpVars    == <<rgVars, smVars, bloomVars, mergeVars, trieVars, memVars, cmVars, cbVars, fcVars, adminVars, dcVars, hpVars, wbVars>>
nonSmVars    == <<rgVars, bloomVars, mergeVars, trieVars, memVars, cmVars, cbVars, fcVars, adminVars, dcVars, hpVars, wbVars, tpVars>>
nonRgVars    == <<smVars, tpVars, wbVars, hpVars, dcVars, adminVars, mergeVars, bloomVars, trieVars, memVars, cmVars, cbVars, fcVars>>
nonFcVars    == <<rgVars, smVars, tpVars, wbVars, hpVars, dcVars, adminVars, mergeVars, bloomVars, trieVars, memVars, cmVars, cbVars>>

\* no merge made
MergeIdle == mergeLast = <<>>

\* no trie under test: an empty trie-index.ts trie, no call made
TrieIdle ==
    /\ trieImpl = "simple"
    /\ trie = (<<>> :> [isEndOfDomain |-> FALSE, source |-> ""])
    /\ trieInserted = <<>>
    /\ trieLast = [op |-> "none", domain |-> <<>>, source |-> ""]

\* no cache under test: an empty cache of capacity one, no call made
MemIdle ==
    /\ memMaxSize = 1
    /\ memCache = <<>>
    /\ now = 0
    /\ memRecency = <<>>
    /\ memLast = [op |-> "none", key |-> "", hit |-> FALSE, result |-> "", evicted |-> <<>>]

\* no cache manager under test: an empty backend, nothing pending
CmIdle ==
    /\ cmStore = <<>>
    /\ cmPending = <<>>
    /\ cmPromises = <<>>
    /\ cmCalls = <<>>
    /\ cmOp = [kind |-> "none", pc |-> "idle"]

\* no batching cache manager under test
CbIdle ==
    /\ cbBackend = "none"
    /\ cbStore = <<>>
    /\ cbCleanupTimer = FALSE
    /\ cbQueue = <<>>
    /\ cbTimer = FALSE
    /\ cbPending = <<>>
    /\ cbPromises = <<>>
    /\ cbCounts = <<>>
    /\ cbOp = <<>>
    /\ cbLast = <<>>

\* no admin call made
AdminIdle == fcAdmin = <<>>

\* no DomainChecker under test
DcIdle ==
    /\ dcChecker = <<>>
    /\ dcTrieImpl = ""
    /\ dcLast = <<>>

\* no result objects under test
HpIdle ==
    /\ hpObjects = <<>>
    /\ hpArrays = <<>>
    /\ hpCache = <<>>
    /\ hpHeld = {}
    /\ hpStored = <<>>
    /\ hpLast = <<>>

\* no write batching under test
WbIdle ==
    /\ wbQueue = <<>>
    /\ wbTimer = 0 - 1
    /\ wbNow = 0
    /\ wbCounts = <<>>
    /\ wbLast = ""

\* no pooled trie under test
TpIdle ==
    /\ tpNodes = <<>>
    /\ nodePool = <<>>
    /\ tpSpare = 0
    /\ tpRoots = <<>>
    /\ tpSimple = <<>>
    /\ tpLast = <<>>

\* no semaphore under test
SmIdle ==
    /\ smPermits = 0
    /\ waitQueue = <<>>
    /\ smTasks = <<>>
    /\ smInitial = 0

\* no factory registry under test
RgIdle ==
    /\ factories = <<>>
    /\ defaultFactory = ""
    /\ rgLast = <<>>

\* no facade under test
FcIdle ==
    /\ fcConfig = <<>>
    /\ fcData = <<>>
    /\ fcSets = <<>>
    /\ fcIndex = <<>>
    /\ domainChecker = <<>>
    /\ fcPc = "none"
    /\ resultCache = <<>>
    /\ fcLast = <<>>

(***************************************************************************)
(* Bounds of the model                                                     *)
(***************************************************************************)
MaxExpected == 2      \* expectedElements passed to a filter under test: 0..MaxExpected
MaxItemLen  == 2      \* longest string handed to add / contains
MaxAdds     == 2      \* distinct items added to a filter between clears
MaxLabels   == 2      \* labels of a domain inserted into a trie under test
MaxTrieDomains == 2   \* distinct domains inserted into a trie between clears
MaxCacheSize == 2     \* largest maxSize of a cache under test with a running clock
MaxTime     == 3      \* last clock reading
MaxHits     == 1      \* hits counted on one entry
MaxCalls    == 3      \* get calls made on a cache manager
MaxCachedEmails == 1  \* emails held by the facade's result cache

(***************************************************************************)
(* Strings                                                                 *)
(***************************************************************************)
Strings(alphabet, n) == UNION {[1..k -> alphabet] : k \in 0..n}

\* String.prototype.charCodeAt for the characters the model uses
CharCode(c) ==
    CASE c = "a" -> 97
      [] c = "b" -> 98
      [] c = "A" -> 65
      [] c = "B" -> 66
      [] c = "." -> 46
      [] c = "@" -> 64
      [] c = "-" -> 45
      [] c = "1" -> 49
      [] OTHER   -> 0

\* JavaScript's %: the result takes the sign of the dividend
JsRem(a, b) == IF a >= 0 THEN a % b ELSE 0 - ((0 - a) % b)

Abs(x) == IF x < 0 THEN 0 - x ELSE x

CeilDiv(a, b) == (a + b - 1) \div b

(***************************************************************************)
(* BloomFilter, constructor arithmetic (both classes, falsePositiveRate    *)
(* left at its default 0.01).  -ln(0.01)/ln(2)^2 = 9.585058... and         *)
(* ln(2) = 0.693147... are carried as scaled integers.                     *)
(***************************************************************************)
BitsPerElementMicro == 9585058
Ln2Micro == 693147

\* this.size = Math.ceil((-expectedElements * Math.log(p)) / Math.log(2) ** 2)
BloomSize(expectedElements) == CeilDiv(expectedElements * BitsPerElementMicro, 1000000)

\* this.numHashFunctions = Math.ceil((this.size / expectedElements) * Math.log(2));
\* for expectedElements = 0 this is NaN; every loop "i < NaN" runs zero times,
\* which is what 0 stands for here.
BloomHashCount(expectedElements) ==
    IF expectedElements = 0 THEN 0
    ELSE CeilDiv(BloomSize(expectedElements) * Ln2Micro, expectedElements * 1000000)

(***************************************************************************)
(* bloom-filter.ts: boolean[] bit array and closure hash functions         *)
(***************************************************************************)
\* hash << 5; hash stays below size, so the 32-bit shift cannot wrap
Shl5(h) == h * 32

RECURSIVE SimpleHashFold(_, _, _, _)
SimpleHashFold(str, i, size, hash) ==
    IF str = <<>> THEN hash
    ELSE SimpleHashFold(Tail(str), i, size,
                        JsRem(Shl5(hash) + hash + CharCode(Head(str)) + i, size))

\* the i-th closure pushed by generateHashFunctions
SimpleHash(str, i, size) == Abs(SimpleHashFold(str, i, size, 0))

NewSimpleBloom(expectedElements) ==
    [ size             |-> BloomSize(expectedElements),
      numHashFunctions |-> BloomHashCount(expectedElements),
      bitArray         |-> {} ]      \* the indices holding true

SimpleAdd(bf, item) ==
    [bf EXCEPT !.bitArray =
        @ \cup {SimpleHash(item, i, bf.size) : i \in 0..(bf.numHashFunctions - 1)}]

SimpleContains(bf, item) ==
    \A i \in 0..(bf.numHashFunctions - 1) : SimpleHash(item, i, bf.size) \in bf.bitArray

SimpleClear(bf) == [bf EXCEPT !.bitArray = {}]

(***************************************************************************)
(* email-validator.ts: Uint8Array bit array, seeded double hash.           *)
(* A 32-bit word is the pair <<hi, lo>> of its 16-bit halves.              *)
(***************************************************************************)
W16 == 65536
BitsPerByte == 8

RECURSIVE Xor(_, _)
Xor(a, b) ==
    IF a = 0 THEN b
    ELSE IF b = 0 THEN a
    ELSE ((a + b) % 2) + 2 * Xor(a \div 2, b \div 2)

\* hash1 ^= char   (char < 2^16)
WordXorChar(w, c) == <<w[1], Xor(w[2], c)>>

\* Math.imul(hash1, 0x01000193): 0x01000193 = 0x0100 * 2^16 + 0x0193
WordImulFnvPrime(w) ==
    LET p == w[2] * 403
    IN  << (w[1] * 403 + (w[2] % 256) * 256 + (p \div W16)) % W16, p % W16 >>

\* hash2 = (hash2 << 5) - hash2 + char; hash2 = hash2 & hash2
\* i.e. 31 * hash2 + char reduced to 32 bits
WordHash2Step(w, c) ==
    LET lo == 31 * w[2] + c
    IN  << (31 * w[1] + (lo \div W16)) % W16, lo % W16 >>

FnvOffsetBasis == <<33052, 40389>>      \* 0x811c9dc5

\* seeds.push(i * 0x9e3779b9), as hi/lo parts; hi may exceed 16 bits (the seed
\* is a double, not yet a 32-bit integer)
HashSeed(i) ==
    LET lo == i * 31161     \* 0x79b9
    IN  << i * 40503 + (lo \div W16), lo % W16 >>     \* 0x9e37

RECURSIVE SeededHashFold(_, _, _)
SeededHashFold(str, hash1, hash2) ==
    IF str = <<>> THEN <<hash1, hash2>>
    ELSE LET c == CharCode(Head(str))
         IN  SeededHashFold(Tail(str),
                            WordImulFnvPrime(WordXorChar(hash1, c)),
                            WordHash2Step(<<hash2[1] % W16, hash2[2]>>, c))

\* the signed value of a 32-bit word, as <<hi, lo>> with hi possibly negative
Signed(w) == IF w[1] >= 32768 THEN <<w[1] - W16, w[2]>> ELSE w

\* Math.abs((hash1 + hash2) % this.size)
AbsSumRem(x, y, size) ==
    LET lo  == x[2] + y[2]
        hi  == x[1] + y[1] + (lo \div W16)
        l   == lo % W16
        mhi == IF hi >= 0 THEN hi ELSE IF l = 0 THEN 0 - hi ELSE 0 - hi - 1
        mlo == IF hi >= 0 \/ l = 0 THEN l ELSE W16 - l
    IN  ((mhi % size) * (W16 % size) + mlo) % size

\* (hash1 + hash2) % this.size without Math.abs: the remainder keeps the sign
\* of the sum
SumRem(x, y, size) ==
    LET lo == x[2] + y[2]
        hi == x[1] + y[1] + (lo \div W16)
    IN  IF hi < 0 THEN 0 - AbsSumRem(x, y, size) ELSE AbsSumRem(x, y, size)

\* mutant of SeededHash: the Math.abs around the remainder is missing
SeededHashNoAbs(str, seed, size) ==
    LET h == SeededHashFold(str, FnvOffsetBasis, seed)
    IN  IF str = <<>> THEN SumRem(h[1], h[2], size)
        ELSE SumRem(Signed(h[1]), Signed(h[2]), size)

\* private hash(str, seed): before the first character hash1 is the literal
\* 0x811c9dc5 and hash2 the seed, both positive doubles; after it both are
\* signed 32-bit integers
SeededHash(str, seed, size) ==
    LET h == SeededHashFold(str, FnvOffsetBasis, seed)
    IN  IF str = <<>> THEN AbsSumRem(h[1], h[2], size)
        ELSE AbsSumRem(Signed(h[1]), Signed(h[2]), size)

NewSeededBloom(expectedElements) ==
    LET size == BloomSize(expectedElements)
        byteSize == CeilDiv(size, BitsPerByte)
    IN  [ size             |-> size,
          numHashFunctions |-> BloomHashCount(expectedElements),
          byteSize         |-> byteSize,
          bitArray         |-> [b \in 0..(byteSize - 1) |-> 0] ]

Pow2(n) == IF n = 0 THEN 1 ELSE IF n = 1 THEN 2 ELSE IF n = 2 THEN 4
           ELSE IF n = 3 THEN 8 ELSE IF n = 4 THEN 16 ELSE IF n = 5 THEN 32
           ELSE IF n = 6 THEN 64 ELSE 128

BitSet(byte, pos) == (byte \div Pow2(pos)) % 2 = 1

\* this.bitArray[byteIndex] |= 1 << bitPosition; a store outside the typed
\* array is dropped
SeededSetBit(bf, bitIndex) ==
    LET byteIndex   == bitIndex \div BitsPerByte
        bitPosition == bitIndex % BitsPerByte
    IN  IF byteIndex \in DOMAIN bf.bitArray
        THEN IF BitSet(bf.bitArray[byteIndex], bitPosition) THEN bf
             ELSE [bf EXCEPT !.bitArray[byteIndex] = @ + Pow2(bitPosition)]
        ELSE bf

\* (this.bitArray[byteIndex] & (1 << bitPosition)) === 0; a load outside the
\* typed array is undefined, and undefined & x is 0
SeededTestBit(bf, bitIndex) ==
    LET byteIndex   == bitIndex \div BitsPerByte
        bitPosition == bitIndex % BitsPerByte
    IN  byteIndex \in DOMAIN bf.bitArray /\ BitSet(bf.bitArray[byteIndex], bitPosition)

\* the bit index add and contains compute for hash function i
SeededBitIndex(bf, item, i) == SeededHash(item, HashSeed(i), bf.size)

RECURSIVE SeededAddFrom(_, _, _)
SeededAddFrom(bf, item, i) ==
    IF i >= bf.numHashFunctions THEN bf
    ELSE SeededAddFrom(SeededSetBit(bf, SeededBitIndex(bf, item, i)), item, i + 1)

SeededAdd(bf, item) == SeededAddFrom(bf, item, 0)

SeededContains(bf, item) ==
    \A i \in 0..(bf.numHashFunctions - 1) : SeededTestBit(bf, SeededBitIndex(bf, item, i))

SeededClear(bf) == [bf EXCEPT !.bitArray = [b \in DOMAIN @ |-> 0]]

(***************************************************************************)
(* Bloom filter specification: a filter of either class, any adds, clear   *)
(***************************************************************************)
BloomImpls == {"simple", "seeded"}
BloomItems == Strings({"a", "b", "."}, MaxItemLen)

\* no filter under test: both classes constructed for zero elements
BloomIdle ==
    /\ bloomImpl = "simple"
    /\ bloomFilter = NewSimpleBloom(0)
    /\ seededBloom = NewSeededBloom(0)
    /\ bloomAdded = {}

InitBloom ==
    /\ bloomImpl \in BloomImpls
    /\ \E n \in 0..MaxExpected :
          /\ bloomFilter = NewSimpleBloom(n)
          /\ seededBloom = NewSeededBloom(n)
    /\ bloomAdded = {}
    /\ TrieIdle
    /\ MemIdle
    /\ CmIdle
    /\ CbIdle
    /\ MergeIdle
    /\ RgIdle
    /\ SmIdle
    /\ TpIdle
    /\ WbIdle
    /\ HpIdle
    /\ DcIdle
    /\ AdminIdle
    /\ FcIdle

BloomAddSimple(item) ==
    /\ bloomImpl = "simple"
    /\ (item \in bloomAdded \/ Cardinality(bloomAdded) < MaxAdds)
    /\ bloomFilter' = SimpleAdd(bloomFilter, item)
    /\ bloomAdded' = bloomAdded \cup {item}
    /\ UNCHANGED <<bloomImpl, seededBloom, nonBloomVars>>

BloomAddSeeded(item) ==
    /\ bloomImpl = "seeded"
    /\ (item \in bloomAdded \/ Cardinality(bloomAdded) < MaxAdds)
    /\ seededBloom' = SeededAdd(seededBloom, item)
    /\ bloomAdded' = bloomAdded \cup {item}
    /\ UNCHANGED <<bloomImpl, bloomFilter, nonBloomVars>>

BloomClear ==
    /\ bloomAdded # {}
    /\ bloomFilter' = SimpleClear(bloomFilter)
    /\ seededBloom' = SeededClear(seededBloom)
    /\ bloomAdded' = {}
    /\ UNCHANGED <<bloomImpl, nonBloomVars>>

BloomAddSimpleAny == \E item \in BloomItems : BloomAddSimple(item)
BloomAddSeededAny == \E item \in BloomItems : BloomAddSeeded(item)

NextBloom ==
    \/ BloomAddSimpleAny
    \/ BloomAddSeededAny
    \/ BloomClear

SpecBloom == InitBloom /\ [][NextBloom]_vars

\* contains(x) of the filter under test
BloomContains(x) ==
    IF bloomImpl = "simple" THEN SimpleContains(bloomFilter, x)
    ELSE SeededContains(seededBloom, x)

\* C1: no false negatives -- every item added since construction (or the last
\* clear) is reported present, whatever other items were added after it.
C1_NoFalseNegatives == \A x \in bloomAdded : BloomContains(x)

\* C1 witness: two different items were added to a filter with a non-empty
\* bit array, and the filter still rejects some item (it is not saturated).
C1_Witness ==
    /\ Cardinality(bloomAdded) >= 2
    /\ (IF bloomImpl = "simple" THEN bloomFilter.size ELSE seededBloom.size) > 0
    /\ \E y \in BloomItems : ~BloomContains(y)
    /\ \A x \in bloomAdded : BloomContains(x)

(***************************************************************************)
(* String operations of the trie and the domain checker (0-based indices,  *)
(* as in JavaScript)                                                       *)
(***************************************************************************)
Dot == "."

\* str.slice(start, end) for 0 <= start, end <= length
Slice(str, start, end) == SubSeq(str, start + 1, end)

\* str.indexOf(ch, from)
IndexOf(str, ch, from) ==
    LET hits == {i \in from..(Len(str) - 1) : i >= 0 /\ str[i + 1] = ch}
    IN  IF hits = {} THEN 0 - 1 ELSE CHOOSE i \in hits : \A j \in hits : i <= j

\* str.lastIndexOf(ch, from): the start position is clamped to 0..length-1
LastIndexOf(str, ch, from) ==
    LET start == IF from < 0 THEN 0 ELSE from
        hits  == {i \in 0..(Len(str) - 1) : i <= start /\ str[i + 1] = ch}
    IN  IF hits = {} THEN 0 - 1 ELSE CHOOSE i \in hits : \A j \in hits : i >= j

RECURSIVE Reverse(_)
Reverse(seq) == IF seq = <<>> THEN <<>> ELSE Append(Reverse(Tail(seq)), Head(seq))

\* str.split(".")
RECURSIVE Split(_)
Split(str) ==
    LET d == IndexOf(str, Dot, 0)
    IN  IF d = 0 - 1 THEN <<str>>
        ELSE <<Slice(str, 0, d)>> \o Split(Slice(str, d + 1, Len(str)))

\* labels.join(".")
RECURSIVE Join(_)
Join(labels) ==
    IF labels = <<>> THEN <<>>
    ELSE IF Len(labels) = 1 THEN labels[1]
    ELSE labels[1] \o <<Dot>> \o Join(Tail(labels))

\* the while loop of splitDomainReverse; fuel counts the iterations left
\* before the walk is given up as not terminating
RECURSIVE SplitReverseLoop(_, _, _, _, _)
SplitReverseLoop(domain, parts, currentIndex, dotIndex, fuel) ==
    IF dotIndex = 0 - 1
    THEN [ parts |-> IF currentIndex > 0
                     THEN Append(parts, Slice(domain, 0, currentIndex))
                     ELSE parts,
           returns |-> TRUE ]
    ELSE IF fuel = 0 THEN [parts |-> parts, returns |-> FALSE]
    ELSE SplitReverseLoop(domain,
                          Append(parts, Slice(domain, dotIndex + 1, currentIndex)),
                          dotIndex,
                          LastIndexOf(domain, Dot, dotIndex - 1),
                          fuel - 1)

\* private splitDomainReverse(domain, lastDotIndex)
SplitDomainReverse(domain, lastDotIndex) ==
    IF lastDotIndex = 0 - 1 THEN [parts |-> <<domain>>, returns |-> TRUE]
    ELSE SplitReverseLoop(domain, <<>>, Len(domain), lastDotIndex, Len(domain) + 1)

(***************************************************************************)
(* TrieIndex.  The tree is a function from paths (the labels walked from   *)
(* the root, TLD first) to nodes; node.children.get(part) of the node at   *)
(* path p is the node at Append(p, part).                                  *)
(***************************************************************************)
TrieImpls == {"simple", "pooled"}

\* new TrieNode() / getPooledNode(): no children, not terminal, empty source
NewTrieNode == [isEndOfDomain |-> FALSE, source |-> ""]

\* root: TrieNode = new TrieNode()
EmptyTrie == (<<>> :> NewTrieNode)

\* the labels insert and search walk: split(".").reverse() in trie-index.ts,
\* splitDomainReverse(domain, domain.lastIndexOf(".")) in the pooled class
TrieParts(impl, domain) ==
    IF impl = "simple" THEN Reverse(Split(domain))
    ELSE SplitDomainReverse(domain, LastIndexOf(domain, Dot, Len(domain))).parts

\* mutant of TrieInsertWalk: a new node is stored for every label, also when
\* the child exists, so the existing child and its subtree are dropped
RECURSIVE TrieInsertWalkAlwaysNew(_, _, _)
TrieInsertWalkAlwaysNew(t, parts, i) ==
    IF i > Len(parts) THEN t
    ELSE LET path == SubSeq(parts, 1, i)
             kept == {p \in DOMAIN t : ~(Len(p) >= i /\ SubSeq(p, 1, i) = path)}
         IN  TrieInsertWalkAlwaysNew(
                 [p \in kept \cup {path} |-> IF p = path THEN NewTrieNode ELSE t[p]],
                 parts, i + 1)

\* the for loop of insert: create the missing child, then step into it
RECURSIVE TrieInsertWalk(_, _, _)
TrieInsertWalk(t, parts, i) ==
    IF i > Len(parts) THEN t
    ELSE LET path == SubSeq(parts, 1, i)
         IN  TrieInsertWalk(IF path \in DOMAIN t THEN t ELSE t @@ (path :> NewTrieNode),
                            parts, i + 1)

\* insert(domain, source), given the reversed labels
TrieInsert(t, parts, source) ==
    [TrieInsertWalk(t, parts, 1) EXCEPT ![parts] = [isEndOfDomain |-> TRUE, source |-> source]]

NotFound == [found |-> FALSE, matchType |-> "exact", confidence |-> 0, source |-> ""]

\* mutant of TrieSearchWalk: a missing child does not end the walk
RECURSIVE TrieSearchWalkNoBreak(_, _, _, _, _)
TrieSearchWalkNoBreak(t, parts, i, node, m) ==
    IF i > Len(parts) THEN m
    ELSE LET child == Append(node, parts[i])
         IN  IF child \in DOMAIN t
             THEN TrieSearchWalkNoBreak(t, parts, i + 1, child,
                      IF t[child].isEndOfDomain
                      THEN [ exactMatch     |-> m.exactMatch \/ i = Len(parts),
                             subdomainMatch |-> m.subdomainMatch \/ i # Len(parts),
                             matchSource    |-> t[child].source ]
                      ELSE m)
             ELSE TrieSearchWalkNoBreak(t, parts, i + 1, node, m)

\* the for loop of search: node is the path of currentNode
RECURSIVE TrieSearchWalk(_, _, _, _, _)
TrieSearchWalk(t, parts, i, node, m) ==
    IF i > Len(parts) THEN m
    ELSE LET child == Append(node, parts[i])
         IN  IF child \in DOMAIN t
             THEN TrieSearchWalk(t, parts, i + 1, child,
                      IF t[child].isEndOfDomain
                      THEN [ exactMatch     |-> m.exactMatch \/ i = Len(parts),
                             subdomainMatch |-> m.subdomainMatch \/ i # Len(parts),
                             matchSource    |-> t[child].source ]
                      ELSE m)
             ELSE m

\* search(domain), given the reversed labels
TrieSearch(t, parts) ==
    LET m == TrieSearchWalk(t, parts, 1, <<>>,
                 [exactMatch |-> FALSE, subdomainMatch |-> FALSE, matchSource |-> ""])
    IN  IF m.exactMatch
        THEN [found |-> TRUE, matchType |-> "exact", confidence |-> 100, source |-> m.matchSource]
        ELSE IF m.subdomainMatch
        THEN [found |-> TRUE, matchType |-> "subdomain", confidence |-> 85, source |-> m.matchSource]
        ELSE NotFound

\* getStats().nodeCount: traverse counts the root and every descendant
TrieNodeCount(t) == Cardinality(DOMAIN t)

(***************************************************************************)
(* Trie specification: a trie of either class; insert, clear               *)
(***************************************************************************)
TrieSources == {"disposable", "allowed"}

\* domains of 1..n labels, labels drawn from the given set
DomainsOf(labels, n) == {Join(ls) : ls \in UNION {[1..k -> labels] : k \in 1..n}}

TrieInsertDomains == DomainsOf({<<"a">>, <<"b">>}, MaxLabels)
TrieQueryDomains  == DomainsOf({<<"a">>, <<"b">>, <<"a", "b">>}, MaxLabels + 1)

NoTrieCall == [op |-> "none", domain |-> <<>>, source |-> ""]

InitTrie ==
    /\ trieImpl \in TrieImpls
    /\ trie = EmptyTrie
    /\ trieInserted = <<>>
    /\ trieLast = NoTrieCall
    /\ BloomIdle
    /\ MemIdle
    /\ CmIdle
    /\ CbIdle
    /\ MergeIdle
    /\ RgIdle
    /\ SmIdle
    /\ TpIdle
    /\ WbIdle
    /\ HpIdle
    /\ DcIdle
    /\ AdminIdle
    /\ FcIdle

TrieInsertCall(domain, source) ==
    /\ (domain \in DOMAIN trieInserted \/ Cardinality(DOMAIN trieInserted) < MaxTrieDomains)
    /\ trie' = TrieInsert(trie, TrieParts(trieImpl, domain), source)
    /\ trieInserted' = [d \in DOMAIN trieInserted \cup {domain} |->
                           IF d = domain THEN source ELSE trieInserted[d]]
    /\ trieLast' = [op |-> "insert", domain |-> domain, source |-> source]
    /\ UNCHANGED <<trieImpl, nonTrieVars>>

TrieClearCall ==
    /\ DOMAIN trieInserted # {}
    /\ trie' = EmptyTrie
    /\ trieInserted' = <<>>
    /\ trieLast' = [NoTrieCall EXCEPT !.op = "clear"]
    /\ UNCHANGED <<trieImpl, nonTrieVars>>

TrieInsertAny == \E domain \in TrieInsertDomains, source \in TrieSources : TrieInsertCall(domain, source)

NextTrie ==
    \/ TrieInsertAny
    \/ TrieClearCall

\* search(q) on the trie under test
Search(t, q) == TrieSearch(t, TrieParts(trieImpl, q))

\* the proper label-suffixes of a domain: what follows each of its dots
ProperSuffixes(d) == {Slice(d, i + 1, Len(d)) : i \in {j \in 0..(Len(d) - 1) : d[j + 1] = Dot}}

\* the registered proper suffixes of q, and the longest of them
RegisteredSuffixes(q, S) == ProperSuffixes(q) \cap S
Longest(strs) == CHOOSE x \in strs : \A y \in strs : Len(x) >= Len(y)

\* C8: search classifies against the inserted set S -- exact (100) iff the
\* domain is in S; else subdomain (85) iff a proper label-suffix is in S, with
\* the source of the longest registered suffix; else not found with confidence 0.
C8_SearchClassifies ==
    \A q \in TrieQueryDomains :
        LET r == Search(trie, q)
            S == DOMAIN trieInserted
        IN  IF q \in S
            THEN r = [found |-> TRUE, matchType |-> "exact", confidence |-> 100,
                      source |-> trieInserted[q]]
            ELSE IF RegisteredSuffixes(q, S) # {}
            THEN r = [found |-> TRUE, matchType |-> "subdomain", confidence |-> 85,
                      source |-> trieInserted[Longest(RegisteredSuffixes(q, S))]]
            ELSE ~r.found /\ r.confidence = 0

\* C8 witness: only "b.a" is inserted; "b.a" is an exact match, "a.b.a" a
\* subdomain match and "ab.a" (it ends with the characters of "b.a") no match.
C8_Witness ==
    /\ DOMAIN trieInserted = {<<"b", ".", "a">>}
    /\ Search(trie, <<"b", ".", "a">>).matchType = "exact"
    /\ Search(trie, <<"b", ".", "a">>).found
    /\ Search(trie, <<"a", ".", "b", ".", "a">>).matchType = "subdomain"
    /\ Search(trie, <<"a", ".", "b", ".", "a">>).found
    /\ ~Search(trie, <<"a", "b", ".", "a">>).found

SpecTrie == InitTrie /\ [][NextTrie]_vars

\* the step is an insert of a domain already in the trie, with another source
TrieReinsertStep ==
    /\ trieLast'.op = "insert"
    /\ trieLast'.domain \in DOMAIN trieInserted
    /\ trieInserted[trieLast'.domain] # trieLast'.source

\* the terminal nodes of a tree
TrieTerminals(t) == {p \in DOMAIN t : t[p].isEndOfDomain}

\* what a re-insert does to the tree itself: no node created, the terminal
\* nodes are the same, the domain's node carries the inserted source
TrieReinsertKeepsShape ==
    LET parts == TrieParts(trieImpl, trieLast'.domain)
    IN  /\ TrieNodeCount(trie') = TrieNodeCount(trie)
        /\ TrieTerminals(trie') = TrieTerminals(trie)
        /\ Cardinality({p \in TrieTerminals(trie') : p = parts}) = 1
        /\ trie'[parts].source = trieLast'.source

\* C9 as stated: a re-insert with a different source keeps the node count and
\* the single terminal node, sets its source, and leaves the search result of
\* every other domain unchanged.
C9_ReinsertLeavesOthers ==
    [][TrieReinsertStep =>
         /\ TrieReinsertKeepsShape
         /\ \A q \in TrieQueryDomains \ {trieLast'.domain} :
               Search(trie', q) = Search(trie, q)]_vars

\* C9 amended: a re-insert with a different source keeps the node count and the
\* single terminal node and sets its source; for every other domain found,
\* matchType and confidence are unchanged, and source is unchanged unless the
\* re-inserted domain is its longest registered proper suffix, in which case
\* the reported source is the newly inserted one.
C9_ReinsertAmended ==
    [][TrieReinsertStep =>
         /\ TrieReinsertKeepsShape
         /\ \A q \in TrieQueryDomains \ {trieLast'.domain} :
               LET reg == RegisteredSuffixes(q, DOMAIN trieInserted)
                   through == /\ q \notin DOMAIN trieInserted
                              /\ reg # {}
                              /\ Longest(reg) = trieLast'.domain
               IN  Search(trie', q) =
                       [Search(trie, q) EXCEPT
                           !.source = IF through THEN trieLast'.source ELSE @]]_vars

\* C9 witness: "a" and "b.a" are both in the trie, "a" was just re-inserted
\* with a source other than the one "b.a" carries; "b.b.a" still reports the
\* source of "b.a", while "b.a.a" reports the new source of "a".
C9_Witness ==
    /\ trieLast = [op |-> "insert", domain |-> <<"a">>, source |-> "allowed"]
    /\ DOMAIN trieInserted = {<<"a">>, <<"b", ".", "a">>}
    /\ trieInserted[<<"b", ".", "a">>] = "disposable"
    /\ TrieNodeCount(trie) = 3
    /\ Search(trie, <<"b", ".", "b", ".", "a">>).source = "disposable"
    /\ Search(trie, <<"a", ".", "a">>).source = "allowed"

(***************************************************************************)
(* MemoryCache.  this.cache is a Map: a sequence of entries in insertion   *)
(* order, one per key.  Map.set of a present key replaces the entry where  *)
(* it stands; delete followed by set moves it to the end.                  *)
(***************************************************************************)
\* config.defaultTtl of the caches under test
DefaultTtl == 2

MemKeysOf(c) == {c[i].key : i \in DOMAIN c}

\* Map.get(key): the position of the key's entry, 0 when absent
MemIndex(c, key) ==
    IF key \in MemKeysOf(c) THEN CHOOSE i \in DOMAIN c : c[i].key = key ELSE 0

\* Map.delete(key)
RECURSIVE MapDelete(_, _)
MapDelete(c, key) ==
    IF c = <<>> THEN <<>>
    ELSE IF Head(c).key = key THEN Tail(c)
    ELSE <<Head(c)>> \o MapDelete(Tail(c), key)

\* Map.set(key, entry)
MapSet(c, entry) ==
    IF entry.key \in MemKeysOf(c)
    THEN [c EXCEPT ![MemIndex(c, entry.key)] = entry]
    ELSE Append(c, entry)

\* mutant of MemExpired: an entry expires as soon as its age reaches ttl
MemExpiredAtTtl(entry, t) == entry.ttl # 0 /\ t - entry.timestamp >= entry.ttl

\* entry.ttl && Date.now() - entry.timestamp > entry.ttl
MemExpired(entry, t) == entry.ttl # 0 /\ t - entry.timestamp > entry.ttl

\* get(key) at time t: the cache afterwards and the value returned
MemGet(c, key, t) ==
    IF key \notin MemKeysOf(c)
    THEN [cache |-> c, hit |-> FALSE, result |-> ""]
    ELSE LET entry == c[MemIndex(c, key)]
         IN  IF MemExpired(entry, t)
             THEN [cache |-> MapDelete(c, key), hit |-> FALSE, result |-> ""]
             ELSE [ cache  |-> MapSet(MapDelete(c, key),
                                      [entry EXCEPT !.hitCount = @ + 1]),
                    hit    |-> TRUE,
                    result |-> entry.result ]

\* mutant of MemEvict: nothing is removed at capacity
MemEvictNothing(c, maxSize) == [cache |-> c, evicted |-> <<>>, returns |-> FALSE]

\* the eviction block of set: at capacity the first key of the Map is deleted;
\* set returns at once when the Map has no first key
MemEvict(c, maxSize) ==
    IF Len(c) >= maxSize
    THEN IF c = <<>>
         THEN [cache |-> c, evicted |-> <<>>, returns |-> TRUE]
         ELSE [cache |-> Tail(c), evicted |-> <<Head(c).key>>, returns |-> FALSE]
    ELSE [cache |-> c, evicted |-> <<>>, returns |-> FALSE]

\* set(key, result, ttl) at time t; ttl = 0 stands for an omitted ttl
MemSet(c, key, result, ttl, t, maxSize, defaultTtl) ==
    LET ev == MemEvict(c, maxSize)
    IN  IF ev.returns
        THEN [cache |-> c, evicted |-> <<>>, stored |-> FALSE]
        ELSE [ cache   |-> MapSet(ev.cache,
                                  [ key       |-> key,
                                    result    |-> result,
                                    timestamp |-> t,
                                    hitCount  |-> 0,
                                    ttl       |-> IF ttl # 0 THEN ttl ELSE defaultTtl ]),
               evicted |-> ev.evicted,
               stored  |-> TRUE ]

\* cleanup(ttlMs) at time t: entries older than the threshold are deleted
RECURSIVE MemCleanup(_, _, _)
MemCleanup(c, ttlMs, t) ==
    LET threshold == IF ttlMs # 0 THEN ttlMs ELSE DefaultTtl
    IN  IF c = <<>> THEN <<>>
        ELSE IF Head(c).ttl # 0 /\ t - Head(c).timestamp > threshold
        THEN MemCleanup(Tail(c), ttlMs, t)
        ELSE <<Head(c)>> \o MemCleanup(Tail(c), ttlMs, t)

\* the recency order after a call: use is the key set or hit (<<>> if none),
\* and keys that left the cache are dropped
RECURSIVE KeepKeys(_, _)
KeepKeys(keys, allowed) ==
    IF keys = <<>> THEN <<>>
    ELSE IF Head(keys) \in allowed THEN <<Head(keys)>> \o KeepKeys(Tail(keys), allowed)
    ELSE KeepKeys(Tail(keys), allowed)

Touch(recency, use, c) ==
    LET others == KeepKeys(recency, MemKeysOf(c) \ {use[i] : i \in DOMAIN use})
    IN  IF use # <<>> /\ use[1] \in MemKeysOf(c) THEN Append(others, use[1]) ELSE others

(***************************************************************************)
(* MemoryCache specifications                                              *)
(***************************************************************************)
MemCall(op, key, hit, result, evicted) ==
    [op |-> op, key |-> key, hit |-> hit, result |-> result, evicted |-> evicted]

MemGetCall(key) ==
    LET r == MemGet(memCache, key, now)
    IN  /\ key \in MemKeysOf(memCache) => memCache[MemIndex(memCache, key)].hitCount < MaxHits
        /\ memCache' = r.cache
        /\ memRecency' = Touch(memRecency, IF r.hit THEN <<key>> ELSE <<>>, r.cache)
        /\ memLast' = MemCall("get", key, r.hit, r.result, <<>>)
        /\ UNCHANGED <<memMaxSize, now, nonMemVars>>

MemSetCall(key, result, ttl) ==
    LET r == MemSet(memCache, key, result, ttl, now, memMaxSize, DefaultTtl)
    IN  /\ memCache' = r.cache
        /\ memRecency' = Touch(memRecency, IF r.stored THEN <<key>> ELSE <<>>, r.cache)
        /\ memLast' = MemCall("set", key, FALSE, "", r.evicted)
        /\ UNCHANGED <<memMaxSize, now, nonMemVars>>

MemHasCall(key) ==
    /\ memLast' = MemCall("has", key, key \in MemKeysOf(memCache), "", <<>>)
    /\ UNCHANGED <<memMaxSize, memCache, now, memRecency, nonMemVars>>

MemDeleteCall(key) ==
    /\ memCache' = MapDelete(memCache, key)
    /\ memRecency' = Touch(memRecency, <<>>, memCache')
    /\ memLast' = MemCall("delete", key, key \in MemKeysOf(memCache), "", <<>>)
    /\ UNCHANGED <<memMaxSize, now, nonMemVars>>

MemClearCall ==
    /\ memCache' = <<>>
    /\ memRecency' = <<>>
    /\ memLast' = MemCall("clear", "", FALSE, "", <<>>)
    /\ UNCHANGED <<memMaxSize, now, nonMemVars>>

MemCleanupCall(ttlMs) ==
    /\ memCache' = MemCleanup(memCache, ttlMs, now)
    /\ memRecency' = Touch(memRecency, <<>>, memCache')
    /\ memLast' = MemCall("cleanup", "", FALSE, "", <<>>)
    /\ UNCHANGED <<memMaxSize, now, nonMemVars>>

\* the clock advances between calls
Tick ==
    /\ now < MaxTime
    /\ now' = now + 1
    /\ UNCHANGED <<memMaxSize, memCache, memRecency, memLast, nonMemVars>>

MemKeys    == {"a", "b"}
MemResults == {"r1", "r2"}
MemTtls    == {0, 1}

InitMem ==
    /\ memMaxSize \in 1..MaxCacheSize
    /\ memCache = <<>>
    /\ now = 0
    /\ memRecency = <<>>
    /\ memLast = MemCall("none", "", FALSE, "", <<>>)
    /\ BloomIdle
    /\ TrieIdle
    /\ CmIdle
    /\ CbIdle
    /\ MergeIdle
    /\ RgIdle
    /\ SmIdle
    /\ TpIdle
    /\ WbIdle
    /\ HpIdle
    /\ DcIdle
    /\ AdminIdle
    /\ FcIdle

MemGetAny     == \E key \in MemKeys : MemGetCall(key)
MemSetAny     == \E key \in MemKeys, result \in MemResults, ttl \in MemTtls : MemSetCall(key, result, ttl)
MemHasAny     == \E key \in MemKeys : MemHasCall(key)
MemDeleteAny  == \E key \in MemKeys : MemDeleteCall(key)
MemCleanupAny == \E ttlMs \in MemTtls : MemCleanupCall(ttlMs)

NextMem ==
    \/ MemGetAny
    \/ MemSetAny
    \/ MemHasAny
    \/ MemDeleteAny
    \/ MemClearCall
    \/ MemCleanupAny
    \/ Tick

SpecMem == InitMem /\ [][NextMem]_vars

\* every call is made at one clock reading, on a cache of up to LruCacheSize
\* entries; one result value, the default ttl
LruCacheSize == 3
LruKeys      == {"a", "b", "c", "d"}

InitMemLru ==
    /\ memMaxSize \in 2..LruCacheSize
    /\ memCache = <<>>
    /\ now = 0
    /\ memRecency = <<>>
    /\ memLast = MemCall("none", "", FALSE, "", <<>>)
    /\ BloomIdle
    /\ TrieIdle
    /\ CmIdle
    /\ CbIdle
    /\ MergeIdle
    /\ RgIdle
    /\ SmIdle
    /\ TpIdle
    /\ WbIdle
    /\ HpIdle
    /\ DcIdle
    /\ AdminIdle
    /\ FcIdle

LruGetAny    == \E key \in LruKeys : MemGetCall(key)
LruSetAny    == \E key \in LruKeys : MemSetCall(key, "r1", 0)
LruDeleteAny == \E key \in LruKeys : MemDeleteCall(key)

NextMemLru ==
    \/ LruGetAny
    \/ LruSetAny
    \/ LruDeleteAny
    \/ MemClearCall

SpecMemLru == InitMemLru /\ [][NextMemLru]_vars

MemEntry(c, key) == c[MemIndex(c, key)]

\* the step is a call of the given method (no call moves the clock)
MemCallStep(op) == memLast'.op = op /\ now' = now

\* C5: when a set evicts, the evicted entry is the least recently used one,
\* where a key's recency is refreshed by a get hit and by a set of that key.
C5_EvictsLeastRecentlyUsed ==
    [][(MemCallStep("set") /\ memLast'.evicted # <<>>)
          => memLast'.evicted = <<Head(memRecency)>>]_vars

\* C6: the cache never holds more than maxSize entries.
C6_CapacityBound == Len(memCache) <= memMaxSize

\* C6 witness: a set at capacity has just evicted an entry of a cache that can
\* hold more than one, and the cache is full again.
C6_Witness ==
    /\ memLast.op = "set"
    /\ memLast.evicted # <<>>
    /\ memMaxSize > 1
    /\ Len(memCache) = memMaxSize

\* C7: a get of a present key issued more than ttl after its insertion misses
\* and removes the entry (the size drops by one); a get within ttl returns the
\* stored result and increments hitCount.
C7_TtlExpiry ==
    [][(MemCallStep("get") /\ memLast'.key \in MemKeysOf(memCache)) =>
         LET key   == memLast'.key
             entry == MemEntry(memCache, key)
         IN  IF now - entry.timestamp > entry.ttl
             THEN /\ ~memLast'.hit
                  /\ key \notin MemKeysOf(memCache')
                  /\ Len(memCache') = Len(memCache) - 1
             ELSE /\ memLast'.hit
                  /\ memLast'.result = entry.result
                  /\ key \in MemKeysOf(memCache')
                  /\ MemEntry(memCache', key).hitCount = entry.hitCount + 1
                  /\ Len(memCache') = Len(memCache)]_vars

\* C7 witness: the last call was a get that missed although nothing was
\* deleted or evicted since the key was set -- the entry had expired -- while
\* the other key, set with the longer ttl, is still cached and has been hit.
C7_Witness ==
    /\ memLast.op = "get"
    /\ ~memLast.hit
    /\ memLast.key \notin MemKeysOf(memCache)
    /\ memMaxSize = 2
    /\ Len(memCache) = 1
    /\ memCache[1].hitCount = 1
    /\ memCache[1].timestamp = 0
    /\ now = 2

(***************************************************************************)
(* CacheManager with request coalescing.  The backend is any ICache: its   *)
(* get is answered some time after it was called, and calls made while it  *)
(* is outstanding run in between.  A promise made by performGet is         *)
(* "waiting" while the backend get is outstanding, "resolved" once it is   *)
(* answered, "done" once the calling get has run its finally block.        *)
(***************************************************************************)
CmKeys    == {"a", "b"}
CmResults == {"r1"}

\* pendingOperations.delete(key)
CmPendingDelete(pending, key) == [k \in DOMAIN pending \ {key} |-> pending[k]]

\* the backend gets outstanding for a key
CmInFlight(key) ==
    {p \in DOMAIN cmPromises : cmPromises[p].key = key /\ cmPromises[p].state = "waiting"}

InitCM ==
    /\ cmStore = [k \in CmKeys |-> "null"]
    /\ cmPending = <<>>
    /\ cmPromises = <<>>
    /\ cmCalls = <<>>
    /\ cmOp = [kind |-> "none", pc |-> "idle"]
    /\ BloomIdle
    /\ TrieIdle
    /\ MemIdle
    /\ CbIdle
    /\ MergeIdle
    /\ RgIdle
    /\ SmIdle
    /\ TpIdle
    /\ WbIdle
    /\ HpIdle
    /\ DcIdle
    /\ AdminIdle
    /\ FcIdle

\* get(email) up to its first await: an existing pending promise is returned;
\* otherwise performGet calls the backend and its promise is registered
CmGet(key) ==
    /\ Len(cmCalls) < MaxCalls
    /\ IF key \in DOMAIN cmPending
       THEN /\ cmCalls' = Append(cmCalls, cmPending[key])
            /\ UNCHANGED <<cmPromises, cmPending>>
       ELSE LET promise == Len(cmPromises) + 1
            IN  /\ cmPromises' = Append(cmPromises,
                                        [key |-> key, state |-> "waiting", result |-> "null"])
                /\ cmPending' = [k \in DOMAIN cmPending \cup {key} |->
                                    IF k = key THEN promise ELSE cmPending[k]]
                /\ cmCalls' = Append(cmCalls, promise)
    /\ UNCHANGED <<cmStore, cmOp, nonCmVars>>

\* the backend answers a get: performGet returns the result
CmBackendReply(promise) ==
    /\ cmPromises[promise].state = "waiting"
    /\ cmPromises' = [cmPromises EXCEPT ![promise].state = "resolved",
                                        ![promise].result = cmStore[cmPromises[promise].key]]
    /\ UNCHANGED <<cmStore, cmPending, cmCalls, cmOp, nonCmVars>>

\* get(email) after its await: finally { pendingOperations.delete(email) }
CmGetFinally(promise) ==
    /\ cmPromises[promise].state = "resolved"
    /\ cmPromises' = [cmPromises EXCEPT ![promise].state = "done"]
    /\ cmPending' = CmPendingDelete(cmPending, cmPromises[promise].key)
    /\ UNCHANGED <<cmStore, cmCalls, cmOp, nonCmVars>>

\* set(email, result) on a backend without setBatch
CmSet(key, result) ==
    /\ cmStore[key] # result
    /\ cmStore' = [cmStore EXCEPT ![key] = result]
    /\ UNCHANGED <<cmPending, cmPromises, cmCalls, cmOp, nonCmVars>>

\* clear() / close() up to the first await: flushSetBatch() with an empty queue
CmOpStart(kind) ==
    /\ cmOp.kind = "none"
    /\ cmOp' = [kind |-> kind, pc |-> "flushed"]
    /\ UNCHANGED <<cmStore, cmPending, cmPromises, cmCalls, nonCmVars>>

\* clear(): await this.cache.clear();  close(): await this.cache.close()
CmOpBackend ==
    /\ cmOp.pc = "flushed"
    /\ cmStore' = IF cmOp.kind = "clear" THEN [k \in CmKeys |-> "null"] ELSE cmStore
    /\ cmOp' = [cmOp EXCEPT !.pc = "backend"]
    /\ UNCHANGED <<cmPending, cmPromises, cmCalls, nonCmVars>>

\* clear() / close(): this.pendingOperations.clear()
CmOpFinish ==
    /\ cmOp.pc = "backend"
    /\ cmPending' = <<>>
    /\ cmOp' = [kind |-> "none", pc |-> "idle"]
    /\ UNCHANGED <<cmStore, cmPromises, cmCalls, nonCmVars>>

CmGetAny          == \E key \in CmKeys : CmGet(key)
CmBackendReplyAny == \E promise \in DOMAIN cmPromises : CmBackendReply(promise)
CmGetFinallyAny   == \E promise \in DOMAIN cmPromises : CmGetFinally(promise)
CmSetAny          == \E key \in CmKeys, result \in CmResults : CmSet(key, result)
CmOpStartAny      == \E kind \in {"clear", "close"} : CmOpStart(kind)

NextCM ==
    \/ CmGetAny
    \/ CmBackendReplyAny
    \/ CmGetFinallyAny
    \/ CmSetAny
    \/ CmOpStartAny
    \/ CmOpBackend
    \/ CmOpFinish

SpecCM == InitCM /\ [][NextCM]_vars

\* C4: request coalescing -- in every reachable state at most one backend get
\* per key is outstanding, and the get calls made for a key while one is
\* outstanding all share its promise (so they resolve to equal results).
C4_OneBackendGetPerKey ==
    \A key \in CmKeys : Cardinality(CmInFlight(key)) <= 1

(***************************************************************************)
(* CacheManager with write batching, over a backend that may fail.  The    *)
(* backend is a MemoryCache ("memory": no setBatch, close() stops its      *)
(* cleanup timer, never fails), a custom ICache with the five mandatory    *)
(* methods only ("plain"), or a custom ICache that also has setBatch and   *)
(* close ("batching").  Every call on a custom backend may throw or        *)
(* reject.  A backend get is answered some time after it was called; the   *)
(* other backend calls are answered before anything else runs.             *)
(***************************************************************************)
BATCH_SIZE == 100

MaxCbCalls == 3       \* get, set, has and delete calls made on a batching cache manager

CbBackends == {"memory", "plain", "batching"}

\* the outcomes a backend call can have: MemoryCache works on a Map and does
\* not fail, a custom backend may
CbFailures(backend) == IF backend = "memory" THEN {FALSE} ELSE BOOLEAN

\* cache.setBatch / cache.close exist
CbHasSetBatch(backend) == backend = "batching"
CbHasClose(backend)    == backend \in {"memory", "batching"}

\* what a call that has settled gave its caller
Resolved(value) == [rejected |-> FALSE, value |-> value]

\* a backend call's outcome passed on without a catch
Uncaught(failed, value) == [rejected |-> failed, value |-> value]

\* performGet: try { return await this.cache.get(email) } catch { return null }
PerformGet(failed, value) == IF failed THEN Resolved("null") ELSE Resolved(value)

\* has: try { return await this.cache.has(email) } catch { return false }
CbHasResult(failed, value) == IF failed THEN Resolved(FALSE) ELSE Resolved(value)

\* delete: try { return await this.cache.delete(email) } catch { return false }
CbDeleteResult(failed, value) == IF failed THEN Resolved(FALSE) ELSE Resolved(value)

\* set without setBatch: try { await this.cache.set(...) } catch { }
CbSetResult(failed, value) == Resolved(value)

\* flushSetBatch: try { await this.cache.setBatch(batch) } catch { }
FlushSetBatchResult(failed, value) == Resolved(value)

\* the backend's content after the writes of a batch, first to last: for each
\* key the value of the last write to it
CbApply(store, batch) ==
    [k \in DOMAIN store |->
        IF \E i \in DOMAIN batch : batch[i].key = k
        THEN batch[CHOOSE i \in DOMAIN batch :
                      /\ batch[i].key = k
                      /\ \A j \in DOMAIN batch : batch[j].key = k => j <= i].value
        ELSE store[k]]

\* a step that settles no call
CbNoCall(op) == [op |-> op, key |-> "", failed |-> FALSE, outcome |-> Resolved("void")]

\* a call that settled, whether a backend call it made failed, and its outcome
CbCall(op, key, failed, outcome) ==
    [op |-> op, key |-> key, failed |-> failed, outcome |-> outcome]

\* writes already waiting for the batch timer when the model starts: none, or
\* so many that the next set call fills the batch
CbQueued == {0, BATCH_SIZE - 1}

InitCMB ==
    /\ cbBackend \in CbBackends
    /\ cbStore = [k \in CmKeys |-> "null"]
    /\ cbCleanupTimer = (cbBackend = "memory")
    /\ \E n \in (IF CbHasSetBatch(cbBackend) THEN CbQueued ELSE {0}) :
          /\ cbQueue = [i \in 1..n |-> [key |-> "a", value |-> "r1"]]
          /\ cbTimer = (n > 0)
          /\ cbCounts = [enqueued |-> n, handed |-> 0, calls |-> 0]
    /\ cbPending = <<>>
    /\ cbPromises = <<>>
    /\ cbOp = [pc |-> "idle", enqueued |-> 0]
    /\ cbLast = CbNoCall("new")
    /\ BloomIdle
    /\ MergeIdle
    /\ RgIdle
    /\ SmIdle
    /\ TpIdle
    /\ WbIdle
    /\ HpIdle
    /\ DcIdle
    /\ AdminIdle
    /\ TrieIdle
    /\ MemIdle
    /\ CmIdle
    /\ FcIdle

\* get(email) up to its first await: an existing pending promise is returned;
\* otherwise performGet calls the backend and its promise is registered
CbGet(key) ==
    /\ cbCounts.calls < MaxCbCalls
    /\ cbCounts' = [cbCounts EXCEPT !.calls = @ + 1]
    /\ IF key \in DOMAIN cbPending
       THEN UNCHANGED <<cbPromises, cbPending>>
       ELSE /\ cbPromises' = Append(cbPromises,
                                    [key |-> key, state |-> "waiting", failed |-> FALSE,
                                     outcome |-> Resolved("null")])
            /\ cbPending' = [k \in DOMAIN cbPending \cup {key} |->
                                IF k = key THEN Len(cbPromises) + 1 ELSE cbPending[k]]
    /\ cbLast' = CbNoCall("step")
    /\ UNCHANGED <<cbBackend, cbStore, cbCleanupTimer, cbQueue, cbTimer, cbOp, nonCbVars>>

\* the backend answers a get or fails it: performGet settles
CbBackendReply(promise, failed) ==
    /\ cbPromises[promise].state = "waiting"
    /\ cbPromises' = [cbPromises EXCEPT
                        ![promise].state = "resolved",
                        ![promise].failed = failed,
                        ![promise].outcome =
                            PerformGet(failed, cbStore[cbPromises[promise].key])]
    /\ cbLast' = CbNoCall("step")
    /\ UNCHANGED <<cbBackend, cbStore, cbCleanupTimer, cbQueue, cbTimer, cbPending,
                   cbCounts, cbOp, nonCbVars>>

\* get(email) after its await: finally { pendingOperations.delete(email) }, and
\* the call settles as performGet did.  The calls that were handed the same
\* promise settle after it: their reactions were registered later.
CbGetFinally(promise) ==
    /\ cbPromises[promise].state = "resolved"
    /\ cbPromises' = [cbPromises EXCEPT ![promise].state = "done",
                                        ![promise].failed = FALSE,
                                        ![promise].outcome = Resolved("null")]
    /\ cbPending' = CmPendingDelete(cbPending, cbPromises[promise].key)
    /\ cbLast' = CbCall("get", cbPromises[promise].key, cbPromises[promise].failed,
                        cbPromises[promise].outcome)
    /\ UNCHANGED <<cbBackend, cbStore, cbCleanupTimer, cbQueue, cbTimer, cbCounts, cbOp,
                   nonCbVars>>

\* flushSetBatch(): the timer is cleared; a non-empty queue is emptied and
\* handed to the backend's setBatch, which stores it or fails
CbFlushSetBatch(queue, failed) ==
    /\ cbTimer' = FALSE
    /\ cbQueue' = <<>>
    /\ cbStore' = IF queue = <<>> \/ failed THEN cbStore ELSE CbApply(cbStore, queue)

\* set(email, result): with setBatch the write is queued, and the queue is
\* flushed when it is full, else the batch timer is armed unless it is;
\* without setBatch the backend's set is called
CbSet(key, result, failed) ==
    /\ cbCounts.calls < MaxCbCalls
    /\ IF CbHasSetBatch(cbBackend)
       THEN \E queue \in {Append(cbQueue, [key |-> key, value |-> result])} :
               IF Len(queue) >= BATCH_SIZE
               THEN /\ CbFlushSetBatch(queue, failed)
                    /\ cbCounts' = [cbCounts EXCEPT !.handed = @ + Len(queue),
                                                    !.enqueued = @ + 1, !.calls = @ + 1]
                    /\ cbLast' = CbCall("set", key, failed,
                                        FlushSetBatchResult(failed, "void"))
               ELSE /\ ~failed
                    /\ cbQueue' = queue
                    /\ cbTimer' = TRUE
                    /\ cbCounts' = [cbCounts EXCEPT !.enqueued = @ + 1, !.calls = @ + 1]
                    /\ cbLast' = CbCall("set", key, FALSE, Resolved("void"))
                    /\ UNCHANGED cbStore
       ELSE /\ cbStore' = IF failed THEN cbStore ELSE [cbStore EXCEPT ![key] = result]
            /\ cbCounts' = [cbCounts EXCEPT !.calls = @ + 1]
            /\ cbLast' = CbCall("set", key, failed, CbSetResult(failed, "void"))
            /\ UNCHANGED <<cbQueue, cbTimer>>
    /\ UNCHANGED <<cbBackend, cbCleanupTimer, cbPending, cbPromises, cbOp, nonCbVars>>

\* the batch timer fires: () => this.flushSetBatch()
CbTimerFire(failed) ==
    /\ cbTimer
    /\ CbFlushSetBatch(cbQueue, failed)
    /\ cbCounts' = [cbCounts EXCEPT !.handed = @ + Len(cbQueue)]
    /\ cbLast' = [CbNoCall("timer") EXCEPT !.failed = failed,
                     !.outcome = FlushSetBatchResult(failed, "void")]
    /\ UNCHANGED <<cbBackend, cbCleanupTimer, cbPending, cbPromises, cbOp, nonCbVars>>

\* has(email)
CbHas(key, failed) ==
    /\ cbCounts.calls < MaxCbCalls
    /\ cbCounts' = [cbCounts EXCEPT !.calls = @ + 1]
    /\ cbLast' = CbCall("has", key, failed, CbHasResult(failed, cbStore[key] # "null"))
    /\ UNCHANGED <<cbBackend, cbStore, cbCleanupTimer, cbQueue, cbTimer, cbPending,
                   cbPromises, cbOp, nonCbVars>>

\* delete(email)
CbDelete(key, failed) ==
    /\ cbCounts.calls < MaxCbCalls
    /\ cbCounts' = [cbCounts EXCEPT !.calls = @ + 1]
    /\ cbStore' = IF failed THEN cbStore ELSE [cbStore EXCEPT ![key] = "null"]
    /\ cbLast' = CbCall("delete", key, failed, CbDeleteResult(failed, cbStore[key] # "null"))
    /\ UNCHANGED <<cbBackend, cbCleanupTimer, cbQueue, cbTimer, cbPending, cbPromises,
                   cbOp, nonCbVars>>

\* close() up to its first await: flushSetBatch()
CbCloseStart(failed) ==
    /\ cbOp.pc = "idle"
    /\ failed => cbQueue # <<>>
    /\ CbFlushSetBatch(cbQueue, failed)
    /\ cbCounts' = [cbCounts EXCEPT !.handed = @ + Len(cbQueue)]
    /\ cbOp' = [pc |-> "flushed", enqueued |-> cbCounts.enqueued]
    /\ cbLast' = CbNoCall("step")
    /\ UNCHANGED <<cbBackend, cbCleanupTimer, cbPending, cbPromises, nonCbVars>>

\* close(): if (this.cache.close) await this.cache.close(); MemoryCache.close
\* clears its cleanup interval, a custom backend's close may fail
CbCloseBackend(failed) ==
    /\ cbOp.pc = "flushed"
    /\ failed => CbHasClose(cbBackend)
    /\ cbCleanupTimer' = IF cbBackend = "memory" THEN FALSE ELSE cbCleanupTimer
    /\ cbOp' = [cbOp EXCEPT !.pc = IF failed THEN "caught" ELSE "closed"]
    /\ cbLast' = CbNoCall("step")
    /\ UNCHANGED <<cbBackend, cbStore, cbQueue, cbTimer, cbPending, cbPromises, cbCounts,
                   nonCbVars>>

\* close(): this.pendingOperations.clear(), skipped when the backend's close
\* failed (the catch block only logs); close() resolves
CbCloseFinish ==
    /\ cbOp.pc \in {"closed", "caught"}
    /\ cbPending' = IF cbOp.pc = "closed" THEN <<>> ELSE cbPending
    /\ cbOp' = [cbOp EXCEPT !.pc = "idle"]
    /\ cbLast' = CbCall("close", "", cbOp.pc = "caught", Resolved("void"))
    /\ UNCHANGED <<cbBackend, cbStore, cbCleanupTimer, cbQueue, cbTimer, cbPromises,
                   cbCounts, nonCbVars>>

CbGetAny          == \E key \in CmKeys : CbGet(key)
CbBackendReplyAny ==
    \E promise \in DOMAIN cbPromises, failed \in CbFailures(cbBackend) :
        CbBackendReply(promise, failed)
CbGetFinallyAny   == \E promise \in DOMAIN cbPromises : CbGetFinally(promise)
CbSetAny          ==
    \E key \in CmKeys, result \in CmResults, failed \in CbFailures(cbBackend) :
        CbSet(key, result, failed)
CbTimerFireAny    == \E failed \in CbFailures(cbBackend) : CbTimerFire(failed)
CbHasAny          == \E key \in CmKeys, failed \in CbFailures(cbBackend) : CbHas(key, failed)
CbDeleteAny       ==
    \E key \in CmKeys, failed \in CbFailures(cbBackend) : CbDelete(key, failed)
CbCloseStartAny   == \E failed \in CbFailures(cbBackend) : CbCloseStart(failed)
CbCloseBackendAny == \E failed \in CbFailures(cbBackend) : CbCloseBackend(failed)

NextCMB ==
    \/ CbGetAny
    \/ CbBackendReplyAny
    \/ CbGetFinallyAny
    \/ CbSetAny
    \/ CbTimerFireAny
    \/ CbHasAny
    \/ CbDeleteAny
    \/ CbCloseStartAny
    \/ CbCloseBackendAny
    \/ CbCloseFinish

SpecCMB == InitCMB /\ [][NextCMB]_vars

\* C11: cache backend failures are never surfaced -- whenever a call whose
\* backend get, set, setBatch, has or delete failed settles, it resolves (it
\* does not reject); get resolves to null, has and delete to false, set leaves
\* the backend's content as it was, and once a get has settled the coalescing
\* map holds no entry for its key.
C11_BackendFailuresSwallowed ==
    [][ /\ (cbLast'.failed /\ cbLast'.op \in {"get", "set", "has", "delete", "timer"}) =>
             /\ ~cbLast'.outcome.rejected
             /\ cbLast'.op = "get" => cbLast'.outcome.value = "null"
             /\ cbLast'.op \in {"has", "delete"} => cbLast'.outcome.value = FALSE
             /\ cbLast'.op \in {"set", "timer"} => cbStore' = cbStore
        /\ cbLast'.op = "get" => cbLast'.key \notin DOMAIN cbPending' ]_vars

\* a get has settled whose backend get failed although the backend holds a
\* result for the key
C11_Witness ==
    cbLast.op = "get" /\ cbLast.failed /\ cbStore[cbLast.key] # "null"

\* C20: after close() resolves, every write enqueued before the call has been
\* handed to the backend's setBatch, the batch queue is empty, no batch timer
\* is armed, the MemoryCache cleanup timer is stopped and the coalescing map
\* is empty.
C20_CloseLeavesNothingBehind ==
    cbLast.op = "close" =>
        /\ cbCounts.handed >= cbOp.enqueued
        /\ cbQueue = <<>>
        /\ ~cbTimer
        /\ ~cbCleanupTimer
        /\ cbPending = <<>>

(***************************************************************************)
(* EmailValidator (the class the facade constructs): format validation,    *)
(* parsing and the pattern heuristics, over strings of the characters      *)
(* a b A B 1 . - @ and the space.                                          *)
(***************************************************************************)
At == "@"

\* a checkEmail argument that is not a string (null)
NullEmail == <<"null">>

IsLetter(c) == c \in {"a", "b", "A", "B"}

\* \d, and [a-zA-Z0-9] (\w without the underscore)
IsDigit(c) == c = "1"
IsAlnum(c) == IsLetter(c) \/ IsDigit(c)

\* String.prototype.toLowerCase
LowerChar(c) == IF c = "A" THEN "a" ELSE IF c = "B" THEN "b" ELSE c
ToLowerCase(str) == [i \in DOMAIN str |-> LowerChar(str[i])]

\* [a-zA-Z0-9.!#$%&'*+/=?^_`{|}~-] : the characters of a local part
InLocalClass(c) == IsAlnum(c) \/ c = Dot \/ c = "-"

\* [a-zA-Z0-9](?:[a-zA-Z0-9-]{0,61}[a-zA-Z0-9])? : one label of the domain
MatchesLabel(label) ==
    /\ Len(label) >= 1
    /\ Len(label) <= 63
    /\ IsAlnum(label[1])
    /\ IsAlnum(label[Len(label)])
    /\ \A i \in DOMAIN label : IsAlnum(label[i]) \/ label[i] = "-"

\* EMAIL_REGEX.test(email), for an email with exactly one @ at atIndex
EmailRegexTest(email, atIndex) ==
    LET localPart == Slice(email, 0, atIndex)
        labels    == Split(Slice(email, atIndex + 1, Len(email)))
    IN  /\ Len(localPart) >= 1
        /\ \A i \in DOMAIN localPart : InLocalClass(localPart[i])
        /\ \A i \in DOMAIN labels : MatchesLabel(labels[i])

\* STRICT_EMAIL_REGEX.test(email), for an email with exactly one @ at atIndex
StrictEmailRegexTest(email, atIndex) ==
    LET localPart == Slice(email, 0, atIndex)
        labels    == Split(Slice(email, atIndex + 1, Len(email)))
    IN  /\ Len(localPart) >= 1
        /\ IsAlnum(localPart[1])
        /\ IsAlnum(localPart[Len(localPart)])
        /\ \A i \in DOMAIN localPart :
              IsAlnum(localPart[i]) \/ localPart[i] \in {Dot, "-"}
        /\ Len(labels) >= 2
        /\ \A i \in DOMAIN labels : MatchesLabel(labels[i])

MaxEmailLength  == 254
MaxLocalLength  == 64
MaxDomainLength == 253

Rejected(message) == [ok |-> FALSE, errors |-> <<message>>]

\* validateEmailFormat(email, result): whether the format is valid, and the
\* messages pushed to result.errors
ValidateEmailFormat(email, strictValidation) ==
    LET atIndex == IndexOf(email, At, 0)
    IN  IF Len(email) > MaxEmailLength
        THEN Rejected("Email address too long (max 254 characters)")
        ELSE IF atIndex = 0 - 1 \/ atIndex = 0 \/ atIndex = Len(email) - 1
        THEN Rejected("Invalid email format - missing or misplaced @ symbol")
        ELSE IF IndexOf(email, At, atIndex + 1) # 0 - 1
        THEN Rejected("Invalid email format - multiple @ symbols")
        ELSE IF atIndex > MaxLocalLength
        THEN Rejected("Local part too long (max 64 characters)")
        ELSE IF Len(email) - (atIndex + 1) > MaxDomainLength
        THEN Rejected("Domain too long (max 253 characters)")
        ELSE IF ~(IF strictValidation THEN StrictEmailRegexTest(email, atIndex)
                                      ELSE EmailRegexTest(email, atIndex))
        THEN Rejected("Invalid email format")
        ELSE [ok |-> TRUE, errors |-> <<>>]

\* parseEmail(email)
ParseEmail(email) ==
    LET atIndex == IndexOf(email, At, 0)
    IN  [ localPart |-> Slice(email, 0, atIndex),
          domain    |-> ToLowerCase(Slice(email, atIndex + 1, Len(email))) ]

\* str.includes(<<c, c>>)
HasDoubled(str, c) == \E i \in 1..(Len(str) - 1) : str[i] = c /\ str[i + 1] = c

\* str has a run of n digits ending at position last
DigitsEndingAt(str, last, n) ==
    /\ last >= n
    /\ last <= Len(str)
    /\ \A i \in (last - n + 1)..last : IsDigit(str[i])

\* analyzePatterns(email, localPart, domain, []), for an email that passed
\* validateEmailFormat.  Of SUSPICIOUS_PATTERNS, /^\d+@/, /^\w{1,3}@/ and
\* /\d{10,}@/ can match a string of these characters (the others need a "+"
\* or a keyword of four letters or more); of SUSPICIOUS_DOMAIN_PATTERNS,
\* /\d{5,}/ can.
AnalyzePatterns(email, localPart, domain) ==
    LET digits    == Cardinality({i \in DOMAIN localPart : IsDigit(localPart[i])})
        allDigits == Len(localPart) >= 1 /\ digits = Len(localPart)
        s0 == IF allDigits THEN 20 ELSE 0
        w0 == IF allDigits THEN <<"Matches suspicious pattern: ^\\d+@">> ELSE <<>>
        shortWord == /\ Len(localPart) >= 1
                     /\ Len(localPart) <= 3
                     /\ \A i \in DOMAIN localPart : IsAlnum(localPart[i])
        s1 == IF shortWord THEN 20 ELSE 0
        w1 == IF shortWord THEN <<"Matches suspicious pattern">> ELSE <<>>
        longDigits == DigitsEndingAt(localPart, Len(localPart), 10)
        s5 == IF longDigits THEN 20 ELSE 0
        w5 == IF longDigits THEN <<"Matches suspicious pattern: \\d{10,}@">> ELSE <<>>
        s2 == IF Len(localPart) <= 2 THEN 15 ELSE 0
        w2 == IF Len(localPart) <= 2 THEN <<"Very short local part">> ELSE <<>>
        keyword == \E last \in DOMAIN domain : DigitsEndingAt(domain, last, 5)
        s6 == IF keyword THEN 30 ELSE 0
        w6 == IF keyword THEN <<"Domain contains suspicious keywords">> ELSE <<>>
        numeric == 10 * digits > 7 * Len(localPart)
        s7 == IF numeric THEN 20 ELSE 0
        w7 == IF numeric THEN <<"Local part is mostly numeric">> ELSE <<>>
        doubled == HasDoubled(domain, Dot) \/ HasDoubled(domain, "-")
        s3 == IF doubled THEN 25 ELSE 0
        w3 == IF doubled THEN <<"Domain has consecutive dots or dashes">> ELSE <<>>
        total == s0 + s1 + s5 + s2 + s6 + s7 + s3
    IN  [ suspiciousScore |-> IF total < 100 THEN total ELSE 100,
          warnings        |-> w0 \o w1 \o w5 \o w2 \o w6 \o w7 \o w3 ]

Max(a, b) == IF a >= b THEN a ELSE b

(***************************************************************************)
(* DomainChecker (domain-checker.ts).  A checker is a record of the sets   *)
(* and indexes it was constructed with, and its domain cache.              *)
(***************************************************************************)
NoMatch == [isMatch |-> FALSE, matchType |-> "exact", confidence |-> 0, source |-> ""]

\* the while loop of checkSubdomainAllowlist / checkSubdomainBlacklist /
\* checkWithHash: whether a parent domain, from dotIndex on, is in the set
RECURSIVE ParentInSet(_, _, _)
ParentInSet(domain, dotIndex, set) ==
    IF dotIndex = 0 - 1 THEN FALSE
    ELSE IF Slice(domain, dotIndex + 1, Len(domain)) \in set THEN TRUE
    ELSE ParentInSet(domain, IndexOf(domain, Dot, dotIndex + 1), set)

\* checkAllowlist(domain)
CheckAllowlist(chk, domain) ==
    IF domain \in chk.allowlist \/ domain \in chk.trusted THEN TRUE
    ELSE IF chk.enableSubdomainChecking
    THEN ParentInSet(domain, IndexOf(domain, Dot, 0), chk.allowlist \cup chk.trusted)
    ELSE FALSE

\* checkBlacklist(domain)
CheckBlacklist(chk, domain) ==
    IF domain \in chk.blacklist
    THEN [isMatch |-> TRUE, matchType |-> "exact", confidence |-> 100, source |-> ""]
    ELSE IF chk.enableSubdomainChecking
            /\ ParentInSet(domain, IndexOf(domain, Dot, 0), chk.blacklist)
    THEN [isMatch |-> TRUE, matchType |-> "subdomain", confidence |-> 90, source |-> ""]
    ELSE NoMatch

\* checkWithHash(domain)
CheckWithHash(chk, domain) ==
    IF ~chk.enableSubdomainChecking THEN NoMatch
    ELSE IF ParentInSet(domain, IndexOf(domain, Dot, 0), chk.disposable)
    THEN [isMatch |-> TRUE, matchType |-> "subdomain", confidence |-> 85, source |-> "hash"]
    ELSE NoMatch

\* checkWithTrie(domain)
CheckWithTrie(chk, domain) ==
    IF ~chk.hasTrie \/ ~chk.enableSubdomainChecking THEN NoMatch
    ELSE LET trieResult == TrieSearch(chk.trie, TrieParts("simple", domain))
         IN  IF trieResult.found /\ trieResult.source = "disposable"
             THEN [ isMatch |-> TRUE, matchType |-> trieResult.matchType,
                    confidence |-> trieResult.confidence, source |-> "trie" ]
             ELSE NoMatch

\* checkWithBloom(domain)
CheckWithBloom(chk, domain) ==
    IF ~chk.hasBloom THEN NoMatch
    ELSE IF chk.enableSubdomainChecking THEN CheckWithHash(chk, domain)
    ELSE NoMatch

\* checkWithHybrid(domain)
CheckWithHybrid(chk, domain) ==
    IF chk.hasTrie /\ chk.enableSubdomainChecking /\ CheckWithTrie(chk, domain).isMatch
    THEN CheckWithTrie(chk, domain)
    ELSE CheckWithHash(chk, domain)

\* performDisposableCheck, first test: the Bloom filter says "not present"
BloomRejects(chk, domain) == chk.hasBloom /\ ~SimpleContains(chk.bloom, domain)

\* performDisposableCheck(domain)
PerformDisposableCheck(chk, domain) ==
    IF BloomRejects(chk, domain) THEN NoMatch
    ELSE IF domain \in chk.disposable
    THEN [isMatch |-> TRUE, matchType |-> "exact", confidence |-> 100, source |-> "database"]
    ELSE CASE chk.indexingStrategy = "trie"   -> CheckWithTrie(chk, domain)
           [] chk.indexingStrategy = "bloom"  -> CheckWithBloom(chk, domain)
           [] chk.indexingStrategy = "hybrid" -> CheckWithHybrid(chk, domain)
           [] OTHER                           -> CheckWithHash(chk, domain)

DomainCacheLimit == 5000

\* the one element of a singleton set; { F(x) : x \in {e} } computes e once
\* and hands its value to F
The(singleton) == CHOOSE x \in singleton : TRUE

\* checkDisposableDomain(domain), once performDisposableCheck has answered:
\* the answer is stored in the domain cache
CacheDomainResult(chk, domain, result) ==
    LET room == IF Len(chk.domainCache) >= DomainCacheLimit
                THEN Tail(chk.domainCache) ELSE chk.domainCache
    IN  [ result  |-> result,
          checker |-> [chk EXCEPT !.domainCache =
                          MapSet(room, [key |-> domain, result |-> result])] ]

\* checkDisposableDomain(domain): the answer and the checker afterwards
CheckDisposableDomain(chk, domain) ==
    IF domain \in MemKeysOf(chk.domainCache)
    THEN [result |-> chk.domainCache[MemIndex(chk.domainCache, domain)].result, checker |-> chk]
    ELSE The({ CacheDomainResult(chk, domain, result) :
                  result \in {PerformDisposableCheck(chk, domain)} })

\* addToAllowlist(domain) / addToBlacklist(domain) of the checker
CheckerAddToAllowlist(chk, domain) ==
    [chk EXCEPT !.allowlist   = @ \cup {ToLowerCase(domain)},
                !.domainCache = MapDelete(@, ToLowerCase(domain))]

CheckerAddToBlacklist(chk, domain) ==
    [chk EXCEPT !.blacklist   = @ \cup {ToLowerCase(domain)},
                !.domainCache = MapDelete(@, ToLowerCase(domain))]

(***************************************************************************)
(* DisposableEmailChecker, the facade (email-validator.ts).  A result is   *)
(* the EmailValidationResult without validationTime; an absent source is   *)
(* "".  checkMxRecord is left at its default, false.                       *)
(***************************************************************************)
FcCacheMaxSize == 10000
FcDefaultTtl   == 86400000
ChunkSize      == 100

BlankResult(email) ==
    [ email |-> email, isValid |-> FALSE, isDisposable |-> FALSE, isAllowed |-> FALSE,
      isBlacklisted |-> FALSE, domain |-> <<>>, localPart |-> <<>>, matchType |-> "none",
      confidence |-> 0, source |-> "", errors |-> <<>>, warnings |-> <<>> ]

\* mutant of MergeChecks: a score of 60 is enough to call an address disposable
MergeChecksFrom60(cfg, valid, blacklistResult, disposableResult, patternResult) ==
    LET step4  == IF blacklistResult.isMatch
                  THEN [valid EXCEPT !.isBlacklisted = TRUE,
                                     !.matchType     = blacklistResult.matchType,
                                     !.confidence    = blacklistResult.confidence]
                  ELSE valid
        step5  == IF disposableResult.isMatch
                  THEN [step4 EXCEPT !.isDisposable = TRUE,
                                     !.matchType    = disposableResult.matchType,
                                     !.confidence   = Max(@, disposableResult.confidence),
                                     !.source       = disposableResult.source]
                  ELSE step4
        merged == [step5 EXCEPT !.warnings   = patternResult.warnings,
                                !.confidence = Max(@, patternResult.suspiciousScore)]
    IN  IF cfg.enablePatternMatching /\ patternResult.suspiciousScore > 0
        THEN IF patternResult.suspiciousScore >= 60
             THEN [merged EXCEPT !.isDisposable = TRUE, !.matchType = "pattern"]
             ELSE merged
        ELSE step5

\* mutant of MergeChecks: the disposable match overwrites the confidence
MergeChecksOverwrite(cfg, valid, blacklistResult, disposableResult, patternResult) ==
    LET step4  == IF blacklistResult.isMatch
                  THEN [valid EXCEPT !.isBlacklisted = TRUE,
                                     !.matchType     = blacklistResult.matchType,
                                     !.confidence    = blacklistResult.confidence]
                  ELSE valid
        step5  == IF disposableResult.isMatch
                  THEN [step4 EXCEPT !.isDisposable = TRUE,
                                     !.matchType    = disposableResult.matchType,
                                     !.confidence   = disposableResult.confidence,
                                     !.source       = disposableResult.source]
                  ELSE step4
        merged == [step5 EXCEPT !.warnings   = patternResult.warnings,
                                !.confidence = Max(@, patternResult.suspiciousScore)]
    IN  IF cfg.enablePatternMatching /\ patternResult.suspiciousScore > 0
        THEN IF patternResult.suspiciousScore >= 80
             THEN [merged EXCEPT !.isDisposable = TRUE, !.matchType = "pattern"]
             ELSE merged
        ELSE step5

\* performEmailCheck, steps 4 to 6: the block-list match, the disposable
\* match and the pattern analysis are merged into the result
MergeChecks(cfg, valid, blacklistResult, disposableResult, patternResult) ==
    LET step4  == IF blacklistResult.isMatch
                  THEN [valid EXCEPT !.isBlacklisted = TRUE,
                                     !.matchType     = blacklistResult.matchType,
                                     !.confidence    = blacklistResult.confidence]
                  ELSE valid
        step5  == IF disposableResult.isMatch
                  THEN [step4 EXCEPT !.isDisposable = TRUE,
                                     !.matchType    = disposableResult.matchType,
                                     !.confidence   = Max(@, disposableResult.confidence),
                                     !.source       = disposableResult.source]
                  ELSE step4
        merged == [step5 EXCEPT !.warnings   = patternResult.warnings,
                                !.confidence = Max(@, patternResult.suspiciousScore)]
    IN  IF cfg.enablePatternMatching /\ patternResult.suspiciousScore > 0
        THEN IF patternResult.suspiciousScore >= 80
             THEN [merged EXCEPT !.isDisposable = TRUE, !.matchType = "pattern"]
             ELSE merged
        ELSE step5

\* performEmailCheck from step 2 on, for an email of valid format
CheckValidEmail(cfg, chk, email, parsed) ==
    LET valid == [BlankResult(ToLowerCase(email)) EXCEPT
                     !.localPart = parsed.localPart,
                     !.domain    = parsed.domain,
                     !.isValid   = TRUE]
    IN  IF CheckAllowlist(chk, parsed.domain)
        THEN [ threw |-> FALSE, message |-> "",
               result |-> [valid EXCEPT !.isAllowed = TRUE, !.matchType = "exact",
                                        !.confidence = 100],
               checker |-> chk ]
        ELSE The({ [ threw |-> FALSE, message |-> "",
                     result  |-> MergeChecks(cfg, valid, blacklistResult, checked.result,
                                             patternResult),
                     checker |-> checked.checker ] :
                   blacklistResult \in {CheckBlacklist(chk, parsed.domain)},
                   checked \in {CheckDisposableDomain(chk, parsed.domain)},
                   patternResult \in {AnalyzePatterns(email, parsed.localPart, parsed.domain)} })

\* performEmailCheck(email): whether it threw, the result, and the domain
\* checker afterwards.  email.toLowerCase() throws a TypeError for null.
PerformEmailCheck(cfg, chk, email) ==
    IF email = NullEmail
    THEN [ threw |-> TRUE, message |-> "Cannot read properties of null",
           result |-> BlankResult(email), checker |-> chk ]
    ELSE The({ IF ~format.ok
               THEN [ threw |-> FALSE, message |-> "",
                      result |-> [BlankResult(ToLowerCase(email)) EXCEPT
                                     !.errors = format.errors],
                      checker |-> chk ]
               ELSE The({ CheckValidEmail(cfg, chk, email, parsed) :
                             parsed \in {ParseEmail(email)} }) :
               format \in {ValidateEmailFormat(email, cfg.strictValidation)} })

\* mutant of CheckEmailCatch: the error is thrown on to the caller
CheckEmailRethrow(email, message) ==
    [ rejected |-> TRUE, result |-> [BlankResult(email) EXCEPT !.errors = <<message>>] ]

\* the catch block of checkEmail
CheckEmailCatch(email, message) ==
    [ rejected |-> FALSE, result |-> [BlankResult(email) EXCEPT !.errors = <<message>>] ]

\* checkEmail once performEmailCheck has returned or thrown: the write to
\* the cache, or the catch block
CheckEmailSettle(cfg, cache, email, t, checked) ==
    IF checked.threw
    THEN The({ [ rejected  |-> caught.rejected, result |-> caught.result,
                 fromCache |-> FALSE, checker |-> checked.checker, cache |-> cache ] :
               caught \in {CheckEmailCatch(email, checked.message)} })
    ELSE [ rejected  |-> FALSE, result |-> checked.result, fromCache |-> FALSE,
           checker   |-> checked.checker,
           cache     |-> IF cfg.enableCaching
                         THEN MemSet(cache, email, checked.result, 0, t,
                                     FcCacheMaxSize, FcDefaultTtl).cache
                         ELSE cache ]

\* checkEmail after the cache lookup missed (or with caching disabled)
CheckEmailMiss(cfg, chk, cache, email, t) ==
    The({ CheckEmailSettle(cfg, cache, email, t, checked) :
             checked \in {PerformEmailCheck(cfg, chk, email)} })

\* checkEmail once the cache has answered
CheckEmailLooked(cfg, chk, email, t, cached) ==
    IF cached.hit
    THEN [ rejected |-> FALSE, result |-> cached.result, fromCache |-> TRUE,
           checker |-> chk, cache |-> cached.cache ]
    ELSE CheckEmailMiss(cfg, chk, cached.cache, email, t)

\* checkEmail(email) at time t: whether the promise rejected, the result, and
\* the domain checker and the result cache afterwards
CheckEmail(cfg, chk, cache, email, t) ==
    The({ CheckEmailLooked(cfg, chk, email, t, cached) :
             cached \in { IF cfg.enableCaching THEN MemGet(cache, email, t)
                          ELSE [cache |-> cache, hit |-> FALSE, result |-> ""] } })

\* chunk.map((email) => this.checkEmail(email)): every call runs up to its
\* first await before any of them continues, so the cache lookups of the
\* chunk come first, in order; MemoryCache.get has no await and runs inside
\* the call, and CacheManager.get answers a repeated email from the pending
\* promise of its first occurrence.  looked: the cache and the answers so far
BatchLookup(cfg, emails, i, t, looked) ==
    LET earlier == {j \in 1..(i - 1) : emails[j] = emails[i]}
    IN  IF ~cfg.enableCaching
        THEN [ cache  |-> looked.cache,
               cached |-> Append(looked.cached, [hit |-> FALSE, result |-> ""]) ]
        ELSE IF earlier # {}
        THEN [ cache  |-> looked.cache,
               cached |-> Append(looked.cached, looked.cached[CHOOSE j \in earlier : TRUE]) ]
        ELSE The({ [ cache  |-> got.cache,
                     cached |-> Append(looked.cached, [hit |-> got.hit, result |-> got.result]) ] :
                   got \in {MemGet(looked.cache, emails[i], t)} })

\* the lookups of the calls lo..hi, in order (first half, then second half)
RECURSIVE BatchLookups(_, _, _, _, _, _)
BatchLookups(cfg, emails, lo, hi, t, looked) ==
    IF lo > hi THEN looked
    ELSE IF lo = hi THEN BatchLookup(cfg, emails, lo, t, looked)
    ELSE The({ BatchLookups(cfg, emails, ((lo + hi) \div 2) + 1, hi, t, half) :
                  half \in {BatchLookups(cfg, emails, lo, (lo + hi) \div 2, t, looked)} })

\* mutant of BatchSettle: the results are collected last-settled first
BatchSettleNewestFirst(done, one) ==
    [ rejected  |-> done.rejected \/ one.rejected,
      results   |-> <<one.result>> \o done.results,
      fromCache |-> <<one.fromCache>> \o done.fromCache,
      checker   |-> one.checker,
      cache     |-> one.cache ]

\* the continuation of the chunk's i-th call.  done: what the calls before
\* it have returned, and the checker and the cache they left
BatchSettle(done, one) ==
    [ rejected  |-> done.rejected \/ one.rejected,
      results   |-> Append(done.results, one.result),
      fromCache |-> Append(done.fromCache, one.fromCache),
      checker   |-> one.checker,
      cache     |-> one.cache ]

\* the continuations of the chunk's calls lo..hi, in order (first half, then
\* second half); Promise.all rejects when one of them rejects
RECURSIVE BatchFinish(_, _, _, _, _, _, _)
BatchFinish(cfg, emails, cached, lo, hi, t, done) ==
    IF lo > hi THEN done
    ELSE IF lo = hi
    THEN The({ BatchSettle(done, one) :
                  one \in { IF cached[lo].hit
                            THEN [ rejected |-> FALSE, result |-> cached[lo].result,
                                   fromCache |-> TRUE, checker |-> done.checker,
                                   cache |-> done.cache ]
                            ELSE CheckEmailMiss(cfg, done.checker, done.cache, emails[lo], t) } })
    ELSE The({ BatchFinish(cfg, emails, cached, ((lo + hi) \div 2) + 1, hi, t, half) :
                  half \in {BatchFinish(cfg, emails, cached, lo, (lo + hi) \div 2, t, done)} })

\* one chunk: Promise.all(chunk.map(...)), from the results of the chunks
\* before it
CheckChunk(cfg, chunk, t, done) ==
    The({ BatchFinish(cfg, chunk, looked.cached, 1, Len(chunk), t,
                      [done EXCEPT !.cache = looked.cache]) :
             looked \in {BatchLookups(cfg, chunk, 1, Len(chunk), t,
                                      [cache |-> done.cache, cached |-> <<>>])} })

\* the for loop of checkEmailsBatch over the chunks from position i on; a
\* rejected chunk ends the loop
RECURSIVE CheckChunks(_, _, _, _, _)
CheckChunks(cfg, emails, i, t, done) ==
    IF i > Len(emails) \/ done.rejected THEN done
    ELSE The({ CheckChunks(cfg, emails, i + ChunkSize, t, next) :
                  next \in { CheckChunk(cfg,
                                        SubSeq(emails, i,
                                               IF i + ChunkSize - 1 < Len(emails)
                                               THEN i + ChunkSize - 1 ELSE Len(emails)),
                                        t, done) } })

\* checkEmailsBatch(emails): chunks of chunkSize, one after the other; when a
\* chunk rejects the call rejects and no result array is returned
CheckEmailsBatch(cfg, chk, cache, emails, t) ==
    The({ IF done.rejected
          THEN [done EXCEPT !.results = <<>>, !.fromCache = <<>>]
          ELSE done :
          done \in { CheckChunks(cfg, emails, 1, t,
                                 [ rejected |-> FALSE, results |-> <<>>, fromCache |-> <<>>,
                                   checker |-> chk, cache |-> cache ]) } })

\* buildTrieIndex(): a new TrieIndex with the three sets inserted
RECURSIVE InsertEach(_, _, _)
InsertEach(t, domains, source) ==
    IF domains = {} THEN t
    ELSE LET domain == CHOOSE d \in domains : TRUE
         IN  InsertEach(TrieInsert(t, TrieParts("simple", domain), source),
                        domains \ {domain}, source)

BuildTrieIndex(sets) ==
    InsertEach(InsertEach(InsertEach(EmptyTrie, sets.disposable, "disposable"),
                          sets.allowlist, "allowed"),
               sets.blacklist, "blacklisted")

\* buildBloomFilter(): a new BloomFilter of the disposable and block sets
RECURSIVE AddEach(_, _)
AddEach(bf, domains) ==
    IF domains = {} THEN bf
    ELSE LET domain == CHOOSE d \in domains : TRUE
         IN  AddEach(SimpleAdd(bf, domain), domains \ {domain})

BuildBloomFilter(sets) ==
    AddEach(AddEach(NewSimpleBloom(Cardinality(sets.disposable) + Cardinality(sets.blacklist)),
                    sets.disposable),
            sets.blacklist)

\* domainTrie and bloomFilter both undefined
NoIndex == [hasTrie |-> FALSE, trie |-> EmptyTrie, hasBloom |-> FALSE, bloom |-> NewSimpleBloom(0)]

\* new DomainChecker(...).  shared: the checker's sets are the very Set
\* objects the facade's fields refer to
NewDomainChecker(sets, cfg, index, indexingStrategy) ==
    [ disposable   |-> sets.disposable,
      allowlist    |-> sets.allowlist,
      blacklist    |-> sets.blacklist,
      trusted      |-> cfg.trustedDomains,
      enableSubdomainChecking |-> cfg.enableSubdomainChecking,
      hasTrie      |-> index.hasTrie,
      trie         |-> index.trie,
      hasBloom     |-> index.hasBloom,
      bloom        |-> index.bloom,
      indexingStrategy |-> indexingStrategy,
      domainCache  |-> <<>>,
      shared       |-> TRUE ]

\* the sets of a checker
SetsOf(chk) ==
    [disposable |-> chk.disposable, allowlist |-> chk.allowlist, blacklist |-> chk.blacklist]

(***************************************************************************)
(* Facade specification: one checker, constructed as one of FcSetups;      *)
(* initialize() runs in three steps, and lookups and addToAllowlist calls  *)
(* are served in between.  forceUpdate is called on an initialised         *)
(* checker, one call at a time.  The clock stands still.                   *)
(***************************************************************************)
Strategies == {"hash", "trie", "bloom", "hybrid"}

\* config.trustedDomains
TrustedDomains == {<<"b", ".", "b">>}

FcConfig(indexingStrategy, enableCaching) ==
    [ indexingStrategy        |-> indexingStrategy,
      enableCaching           |-> enableCaching,
      enableIndexing          |-> TRUE,
      enableSubdomainChecking |-> TRUE,
      enablePatternMatching   |-> TRUE,
      strictValidation        |-> FALSE,
      trustedDomains          |-> TrustedDomains ]

\* what the three files hold: one disposable domain, alone or also on the
\* allow list and the block list
FcCorpora ==
    { [disposable |-> {<<"b", ".", "a">>}, allowlist |-> {}, blacklist |-> {}],
      [disposable |-> {<<"b", ".", "a">>}, allowlist |-> {<<"b", ".", "a">>},
       blacklist  |-> {<<"b", ".", "a">>}] }

\* the checkers constructed: every strategy and the cache over the first
\* corpus, the default strategy over each corpus
FcSetups ==
    {<<FcConfig(s, FALSE), data>> : s \in {"hybrid"}, data \in FcCorpora}
    \cup {<<FcConfig(s, FALSE), data>> :
            s \in Strategies, data \in {d \in FcCorpora : d.allowlist = {}}}
    \cup {<<FcConfig("hybrid", TRUE), data>> : data \in {d \in FcCorpora : d.allowlist = {}}}

\* the domains passed to addToAllowlist
FcAdminDomains == {<<"b", ".", "a">>}

\* the emails looked up: four well-formed ones (a listed domain, a
\* subdomain of it, the listed domain in upper case, a trusted domain) and
\* malformed ones
FcValidEmails ==
    { <<"a", "@", "b", ".", "a">>,
      <<"a", "@", "a", ".", "b", ".", "a">>,
      <<"a", "@", "B", ".", "a">>,
      <<"a", "@", "b", ".", "b">> }

FcMalformedEmails ==
    { <<>>,
      <<"a">>,
      <<"@", "a">>,
      <<"a", "@">>,
      <<"a", "@", "b", "@", "a">>,
      <<"a", "@", ".", "a">>,
      <<"a", "@", "-", "a">>,
      <<"a", " ", "@", "a">>,
      NullEmail }

FcEmails == FcValidEmails \cup FcMalformedEmails

\* the batches passed to checkEmailsBatch: a well-formed email (v), one the
\* validator rejects (m) and null, alone, repeated, and in each other's way
FcBatches ==
    LET v == <<"a", "@", "b", ".", "a">>
        m == <<"a", "@">>
    IN  { <<>>, <<v>>, <<v, v>>, <<m, v>>, <<NullEmail, v>>, <<v, NullEmail, m>>,
          <<m, NullEmail, v>> }

\* the result cache stays within the bounds of this specification
CacheWithinBounds(cache) ==
    /\ Len(cache) <= MaxCachedEmails
    /\ \A i \in DOMAIN cache : cache[i].hitCount <= MaxHits

FcCall(op, emails, results, fromCache, rejected) ==
    [op |-> op, emails |-> emails, results |-> results, fromCache |-> fromCache,
     rejected |-> rejected]

FcNoCall(op) == FcCall(op, <<>>, <<>>, <<>>, FALSE)

InitFacade ==
    /\ \E setup \in FcSetups :
          /\ fcConfig = setup[1]
          /\ fcData = setup[2]
    /\ fcSets = [disposable |-> {}, allowlist |-> {}, blacklist |-> {}]
    /\ fcIndex = NoIndex
    /\ domainChecker = NewDomainChecker(fcSets, fcConfig, NoIndex, "hybrid")
    /\ fcPc = "loading"
    /\ resultCache = <<>>
    /\ fcLast = FcNoCall("new")
    /\ BloomIdle
    /\ TrieIdle
    /\ MemIdle
    /\ CmIdle
    /\ CbIdle
    /\ MergeIdle
    /\ RgIdle
    /\ SmIdle
    /\ TpIdle
    /\ WbIdle
    /\ HpIdle
    /\ DcIdle
    /\ AdminIdle

\* loadAllData(): the three fields are given the freshly loaded sets; the
\* checker keeps the Set objects it was constructed with
FcLoadAllData ==
    /\ fcPc = "loading"
    /\ fcSets' = fcData
    /\ domainChecker' = [domainChecker EXCEPT !.shared = FALSE]
    /\ fcPc' = "loaded"
    /\ fcLast' = FcNoCall("loadAllData")
    /\ UNCHANGED <<fcConfig, fcData, fcIndex, resultCache, nonFcVars>>

\* buildIndex()
FcBuildIndex ==
    /\ fcPc = "loaded"
    /\ fcIndex' =
          IF ~fcConfig.enableIndexing THEN fcIndex
          ELSE CASE fcConfig.indexingStrategy = "trie" ->
                      [fcIndex EXCEPT !.hasTrie = TRUE, !.trie = BuildTrieIndex(fcSets)]
                 [] fcConfig.indexingStrategy = "bloom" ->
                      [fcIndex EXCEPT !.hasBloom = TRUE, !.bloom = BuildBloomFilter(fcSets)]
                 [] fcConfig.indexingStrategy = "hybrid" ->
                      [ hasTrie  |-> TRUE, trie  |-> BuildTrieIndex(fcSets),
                        hasBloom |-> TRUE, bloom |-> BuildBloomFilter(fcSets) ]
                 [] OTHER -> fcIndex
    /\ fcPc' = "indexed"
    /\ fcLast' = FcNoCall("buildIndex")
    /\ UNCHANGED <<fcConfig, fcData, fcSets, domainChecker, resultCache, nonFcVars>>

\* updateComponents()
FcUpdateComponents ==
    /\ fcPc = "indexed"
    /\ domainChecker' = NewDomainChecker(fcSets, fcConfig, fcIndex, fcConfig.indexingStrategy)
    /\ fcPc' = "ready"
    /\ fcLast' = FcNoCall("updateComponents")
    /\ UNCHANGED <<fcConfig, fcData, fcSets, fcIndex, resultCache, nonFcVars>>

\* forceUpdate(), up to the await of the loads
FcForceUpdate ==
    /\ fcPc = "ready"
    /\ fcPc' = "loading"
    /\ fcLast' = FcNoCall("forceUpdate")
    /\ UNCHANGED <<fcConfig, fcData, fcSets, fcIndex, domainChecker, resultCache, nonFcVars>>

\* checkEmail(email)
FcCheckEmail(email) ==
    \E r \in {CheckEmail(fcConfig, domainChecker, resultCache, email, now)} :
        /\ CacheWithinBounds(r.cache)
        /\ domainChecker' = r.checker
        /\ resultCache' = r.cache
        /\ fcLast' = FcCall("checkEmail", <<email>>,
                            IF r.rejected THEN <<>> ELSE <<r.result>>,
                            <<r.fromCache>>, r.rejected)
        /\ UNCHANGED <<fcConfig, fcData, fcSets, fcIndex, fcPc, nonFcVars>>

\* checkEmailsBatch(emails)
FcCheckEmailsBatch(emails) ==
    \E r \in {CheckEmailsBatch(fcConfig, domainChecker, resultCache, emails, now)} :
        /\ CacheWithinBounds(r.cache)
        /\ domainChecker' = r.checker
        /\ resultCache' = r.cache
        /\ fcLast' = FcCall("checkEmailsBatch", emails, r.results, r.fromCache, r.rejected)
        /\ UNCHANGED <<fcConfig, fcData, fcSets, fcIndex, fcPc, nonFcVars>>

\* addToAllowlist(domain): the checker's set, which is the facade's own set
\* when the two share it
FcAddToAllowlist(domain) ==
    /\ domainChecker' = CheckerAddToAllowlist(domainChecker, domain)
    /\ fcSets' = IF domainChecker.shared
                 THEN [fcSets EXCEPT !.allowlist = @ \cup {ToLowerCase(domain)}]
                 ELSE fcSets
    /\ fcLast' = FcNoCall("addToAllowlist")
    /\ UNCHANGED <<fcConfig, fcData, fcIndex, fcPc, resultCache, nonFcVars>>

FcCheckEmailAny       == \E email \in FcEmails : FcCheckEmail(email)
FcCheckEmailsBatchAny == \E emails \in FcBatches : FcCheckEmailsBatch(emails)
FcAddToAllowlistAny   == \E domain \in FcAdminDomains : FcAddToAllowlist(domain)

NextFacade ==
    \/ FcLoadAllData
    \/ FcBuildIndex
    \/ FcUpdateComponents
    \/ FcForceUpdate
    \/ FcCheckEmailAny
    \/ FcCheckEmailsBatchAny
    \/ FcAddToAllowlistAny

SpecFacade == InitFacade /\ [][NextFacade]_vars

(***************************************************************************)
(* Facade claims.  fcLast is set by every step, so fcLast.op = "checkEmail"*)
(* says that the step into this state was that call, and the sets of this  *)
(* state are the sets the call ran with.                                   *)
(***************************************************************************)
AtPositions(email) == {i \in DOMAIN email : email[i] = At}

\* the text after the @ of an email with one @, in lower case
DomainPartOf(email) ==
    ToLowerCase(SubSeq(email, (CHOOSE i \in AtPositions(email) : TRUE) + 1, Len(email)))

LocalPartOf(email) == SubSeq(email, 1, (CHOOSE i \in AtPositions(email) : TRUE) - 1)

\* a malformed email, said without the validator: not a string; not exactly
\* one @; nothing before or after it; a space; a domain label that is empty
\* or starts or ends with a hyphen
Malformed(email) ==
    \/ email = NullEmail
    \/ Cardinality(AtPositions(email)) # 1
    \/ LocalPartOf(email) = <<>>
    \/ DomainPartOf(email) = <<>>
    \/ \E i \in DOMAIN email : email[i] = " "
    \/ LET domain == DomainPartOf(email)
       IN  \/ domain[1] \in {Dot, "-"}
           \/ domain[Len(domain)] \in {Dot, "-"}
           \/ \E i \in 1..(Len(domain) - 1) :
                 \/ domain[i] = Dot /\ domain[i + 1] \in {Dot, "-"}
                 \/ domain[i] = "-" /\ domain[i + 1] = Dot

\* sub is a proper subdomain of domain: it ends with "." and domain
IsProperSubdomain(sub, domain) ==
    /\ Len(sub) > Len(domain) + 1
    /\ SubSeq(sub, Len(sub) - Len(domain), Len(sub)) = <<Dot>> \o domain

\* the step into this state was a checkEmail that computed its answer on an
\* initialised hybrid checker whose corpus is one disposable domain, for a
\* well-formed address at a proper subdomain of it
HybridSubdomainLookup ==
    /\ fcLast.op = "checkEmail"
    /\ ~fcLast.fromCache[1]
    /\ fcPc = "ready"
    /\ fcConfig.indexingStrategy = "hybrid"
    /\ fcConfig.enableSubdomainChecking
    /\ SetsOf(domainChecker) = fcSets
    /\ Cardinality(fcSets.disposable) = 1
    /\ fcSets.allowlist = {}
    /\ fcSets.blacklist = {}
    /\ domainChecker.hasTrie
    /\ domainChecker.hasBloom
    /\ ~Malformed(fcLast.emails[1])
    /\ \E d \in fcSets.disposable : IsProperSubdomain(DomainPartOf(fcLast.emails[1]), d)

\* C2: with corpus disposable={d}, empty allow and block lists, subdomain
\* checking and the hybrid strategy, checkEmail for an address at a proper
\* subdomain s.d returns isDisposable=true, matchType "subdomain",
\* confidence 85 and domain s.d
C2_HybridSubdomainMatch ==
    HybridSubdomainLookup =>
        /\ ~fcLast.rejected
        /\ fcLast.results[1].isDisposable
        /\ fcLast.results[1].matchType = "subdomain"
        /\ fcLast.results[1].confidence = 85
        /\ fcLast.results[1].domain = DomainPartOf(fcLast.emails[1])

\* the step into this state was a checkEmail for a well-formed address whose
\* domain is in the allow set (the facade's and the checker's) or trusted
AllowedLookup ==
    /\ fcLast.op = "checkEmail"
    /\ ~Malformed(fcLast.emails[1])
    /\ \/ DomainPartOf(fcLast.emails[1]) \in fcSets.allowlist \cap domainChecker.allowlist
       \/ DomainPartOf(fcLast.emails[1]) \in fcConfig.trustedDomains

\* C3: allow-list precedence: for every valid email whose domain is in the
\* allow set or the trusted set when checkEmail is called, the result has
\* isAllowed=true, isDisposable=false, isBlacklisted=false and confidence 100
C3_AllowlistPrecedence ==
    AllowedLookup =>
        /\ ~fcLast.rejected
        /\ fcLast.results[1].isAllowed
        /\ ~fcLast.results[1].isDisposable
        /\ ~fcLast.results[1].isBlacklisted
        /\ fcLast.results[1].confidence = 100

\* the result of a lookup that failed on its input
IsErrorResult(result) ==
    /\ ~result.isValid
    /\ result.errors # <<>>
    /\ ~result.isDisposable
    /\ ~result.isAllowed
    /\ ~result.isBlacklisted
    /\ result.matchType = "none"
    /\ result.confidence = 0

\* C10: checkEmail and checkEmailsBatch never reject; there is one result per
\* email, and the result for a malformed email has isValid=false, a non-empty
\* errors list, no flag set, matchType "none" and confidence 0
C10_MalformedNeverThrows ==
    fcLast.op \in {"checkEmail", "checkEmailsBatch"} =>
        /\ ~fcLast.rejected
        /\ Len(fcLast.results) = Len(fcLast.emails)
        /\ \A i \in DOMAIN fcLast.emails :
              Malformed(fcLast.emails[i]) => IsErrorResult(fcLast.results[i])

\* a batch whose first entry is null got an error result for it and went on
\* to classify its second entry
C10_Witness ==
    /\ fcLast.op = "checkEmailsBatch"
    /\ Len(fcLast.emails) >= 2
    /\ fcLast.emails[1] = NullEmail
    /\ ~Malformed(fcLast.emails[2])
    /\ Len(fcLast.results) >= 2
    /\ IsErrorResult(fcLast.results[1])
    /\ fcLast.results[2].isValid
    /\ fcLast.results[2].isDisposable


(***************************************************************************)
(* checkEmailsBatch over more than one chunk.  The batches are a short     *)
(* pool of emails repeated up to a length around the chunk size.           *)
(***************************************************************************)
MaxChunks    == 2     \* full chunks in a batch
MaxBatchHits == 2     \* hits counted on one entry of the result cache

\* pool[1], pool[2], ..., pool[1], ... up to length n
Repeated(pool, n) == [i \in 1..n |-> pool[((i - 1) % Len(pool)) + 1]]

FcPools ==
    LET v == <<"a", "@", "b", ".", "a">>
        w == <<"a", "@", "b", ".", "b">>
        m == <<"a", "@">>
    IN  { <<v>>, <<v, m, w>>, <<w, NullEmail, v>> }

FcLongLengths ==
    {ChunkSize - 1, ChunkSize, ChunkSize + 1} \cup
    {MaxChunks * ChunkSize, MaxChunks * ChunkSize + 1}

FcLongBatches == { Repeated(pool, n) : pool \in FcPools, n \in FcLongLengths }

\* checkEmailsBatch(emails) with a long batch
FcCheckLongBatch(emails) ==
    \E r \in {CheckEmailsBatch(fcConfig, domainChecker, resultCache, emails, now)} :
        /\ \A i \in DOMAIN r.cache : r.cache[i].hitCount <= MaxBatchHits
        /\ domainChecker' = r.checker
        /\ resultCache' = r.cache
        /\ fcLast' = FcCall("checkEmailsBatch", emails, r.results, r.fromCache, r.rejected)
        /\ UNCHANGED <<fcConfig, fcData, fcSets, fcIndex, fcPc, nonFcVars>>

FcCheckLongBatchAny == \E emails \in FcLongBatches : FcCheckLongBatch(emails)

NextBatch ==
    \/ FcLoadAllData
    \/ FcBuildIndex
    \/ FcUpdateComponents
    \/ FcCheckLongBatchAny

SpecBatch == InitFacade /\ [][NextBatch]_vars

\* the chunk an index of the batch falls in, counted from 0
ChunkOf(i) == (i - 1) \div ChunkSize

\* C12: checkEmailsBatch returns one result per input email, in input order:
\* result i is what checkEmail(emails[i]) returns in the state the batch was
\* called in, for lengths below, at and above multiples of the chunk size and
\* with repeated emails.  Chunk k+1 is started only after every lookup of
\* chunk k has settled: with the result cache on, an email that the cache can
\* hold is answered from the cache exactly when the cache held it before the
\* call or it occurs in an earlier chunk.
C12_BatchInOrderChunkByChunk ==
    [][ fcLast'.op = "checkEmailsBatch" =>
          /\ ~fcLast'.rejected
          /\ Len(fcLast'.results) = Len(fcLast'.emails)
          /\ \A i \in DOMAIN fcLast'.emails :
                /\ fcLast'.results[i] =
                      CheckEmail(fcConfig, domainChecker, resultCache,
                                 fcLast'.emails[i], now).result
                /\ fcLast'.fromCache[i] <=>
                      /\ fcConfig.enableCaching
                      /\ \/ fcLast'.emails[i] \in MemKeysOf(resultCache)
                         \/ /\ fcLast'.emails[i] # NullEmail
                            /\ \E j \in 1..(i - 1) :
                                  /\ ChunkOf(j) < ChunkOf(i)
                                  /\ fcLast'.emails[j] = fcLast'.emails[i] ]_vars

\* a batch of two chunks and one email more, with repeated emails of which
\* one is null, answered in part from the result cache
C12_Witness ==
    /\ fcLast.op = "checkEmailsBatch"
    /\ Len(fcLast.results) = MaxChunks * ChunkSize + 1
    /\ \E i, j \in DOMAIN fcLast.emails :
          /\ fcLast.emails[i] = NullEmail
          /\ fcLast.fromCache[j]
          /\ \E k \in 1..(j - 1) : fcLast.emails[k] = fcLast.emails[j] /\ ~fcLast.fromCache[k]


(***************************************************************************)
(* BloomFilter.merge (the class in email-validator.ts).  Filters are       *)
(* constructed with falsePositiveRate 0.01 (the default) or 0.1, for which *)
(* -ln(0.1)/ln(2)^2 = 4.792529...; one element at 0.01 and two at 0.1 give *)
(* the same size with different hash counts.                               *)
(***************************************************************************)
BitsPerElementTenthMicro == 4792529

MaxMerges == 2        \* merge calls made on a filter

\* new BloomFilter(expectedElements, falsePositiveRate)
SeededBloomWith(expectedElements, bitsPerElementMicro) ==
    The({ [ size             |-> size,
            numHashFunctions |-> IF expectedElements = 0 THEN 0
                                 ELSE CeilDiv(size * Ln2Micro, expectedElements * 1000000),
            byteSize         |-> CeilDiv(size, BitsPerByte),
            bitArray         |-> [b \in 0..(CeilDiv(size, BitsPerByte) - 1) |-> 0] ] :
          size \in {CeilDiv(expectedElements * bitsPerElementMicro, 1000000)} })

\* a | b on bytes
ByteOr(a, b) ==
    LET bit(pos) == IF BitSet(a, pos) \/ BitSet(b, pos) THEN Pow2(pos) ELSE 0
    IN  bit(0) + bit(1) + bit(2) + bit(3) + bit(4) + bit(5) + bit(6) + bit(7)

\* mutant of MergeBits: the bytes are and-ed
MergeBitsAnd(bf, other) ==
    [bf EXCEPT !.bitArray =
        [b \in DOMAIN @ |-> IF b \in DOMAIN other.bitArray
                            THEN @[b] + other.bitArray[b] - ByteOr(@[b], other.bitArray[b])
                            ELSE @[b]]]

\* for (i < this.byteSize) this.bitArray[i] |= other.bitArray[i]; a load
\* outside other's typed array is undefined, and x | undefined is x
MergeBits(bf, other) ==
    [bf EXCEPT !.bitArray =
        [b \in DOMAIN @ |-> IF b \in DOMAIN other.bitArray
                            THEN ByteOr(@[b], other.bitArray[b]) ELSE @[b]]]

\* mutant of SeededMerge: the parameters are not compared
SeededMergeUnchecked(bf, other) == [threw |-> FALSE, filter |-> MergeBits(bf, other)]

\* merge(other): whether it threw, and this filter afterwards.  A filter
\* of size 0 was made for zero elements and its numHashFunctions is NaN,
\* which !== finds different from every value, NaN included
SeededMerge(bf, other) ==
    IF \/ bf.size # other.size
       \/ bf.numHashFunctions # other.numHashFunctions
       \/ bf.size = 0
    THEN [threw |-> TRUE, filter |-> bf]
    ELSE [threw |-> FALSE, filter |-> MergeBits(bf, other)]

\* the filters as constructed
MergeFilters ==
    { SeededBloomWith(n, bpe) :
        n \in 0..MaxExpected, bpe \in {BitsPerElementMicro, BitsPerElementTenthMicro} }

\* the items added to the filters of this specification
MergeItems == {<<"a">>, <<"b", ".">>}

\* the filters passed to merge: as constructed, or with one item added
MergeOthers ==
    MergeFilters \cup { SeededAdd(bf, item) : bf \in MergeFilters, item \in MergeItems }

InitMerge ==
    /\ bloomImpl = "seeded"
    /\ bloomFilter = NewSimpleBloom(0)
    /\ seededBloom \in MergeFilters
    /\ bloomAdded = {}
    /\ mergeLast = [calls |-> 0, threw |-> FALSE, other |-> SeededBloomWith(0, 0)]
    /\ AdminIdle
    /\ RgIdle
    /\ SmIdle
    /\ TpIdle
    /\ WbIdle
    /\ HpIdle
    /\ DcIdle
    /\ TrieIdle
    /\ MemIdle
    /\ CmIdle
    /\ CbIdle
    /\ FcIdle

\* this.merge(other)
BloomMerge(other) ==
    /\ mergeLast.calls < MaxMerges
    /\ \E r \in {SeededMerge(seededBloom, other)} :
          /\ seededBloom' = r.filter
          /\ mergeLast' = [calls |-> mergeLast.calls + 1, threw |-> r.threw, other |-> other]
    /\ UNCHANGED <<bloomImpl, bloomFilter, bloomAdded, nonBloomMergeVars>>

BloomMergeAny == \E other \in MergeOthers : BloomMerge(other)
MergeAddAny   == \E item \in MergeItems : BloomAddSeeded(item)

NextMerge ==
    \/ MergeAddAny
    \/ BloomClear
    \/ BloomMergeAny

SpecMerge == InitMerge /\ [][NextMerge]_vars

\* C13: merge(other) with a different size m or a different hash count k
\* throws an error to the caller and leaves this filter's bit array as it was.
C13_MergeMismatchThrows ==
    [][ ( /\ mergeLast'.calls # mergeLast.calls
          /\ \/ mergeLast'.other.size # seededBloom.size
             \/ mergeLast'.other.numHashFunctions # seededBloom.numHashFunctions )
        => /\ mergeLast'.threw
           /\ seededBloom'.bitArray = seededBloom.bitArray ]_vars

\* a filter holding an item was merged with a filter of the same size and a
\* different hash count that has a bit set where this filter has none
C13_Witness ==
    /\ mergeLast.calls > 0
    /\ mergeLast.threw
    /\ bloomAdded # {}
    /\ mergeLast.other.size = seededBloom.size
    /\ mergeLast.other.numHashFunctions # seededBloom.numHashFunctions
    /\ \E b \in DOMAIN seededBloom.bitArray :
          ByteOr(seededBloom.bitArray[b], mergeLast.other.bitArray[b]) # seededBloom.bitArray[b]


(***************************************************************************)
(* The facade with its admin calls.  addToAllowlist and addToBlacklist     *)
(* take any string; the clock advances with every admin call, so that a    *)
(* cached result is older than the call exactly when its timestamp is      *)
(* smaller than the time of the call.                                      *)
(***************************************************************************)
MaxMutations == 2     \* admin calls made on a facade

\* isValidDomain of the DomainChecker that has one: labels of letters, digits
\* and inner hyphens, separated by dots, at most 253 characters
IsValidDomain(domain) ==
    /\ Len(domain) <= MaxDomainLength
    /\ \A i \in DOMAIN Split(domain) : MatchesLabel(Split(domain)[i])

AdminLists   == {"allowlist", "blacklist"}
AdminDomains == { <<"b", ".", "a">>, <<"B", ".", "a">>, <<"-", "a">>, <<>> }
AdminEmails  == { <<"a", "@", "b", ".", "a">>, <<"a", "@", "a", ".", "b", ".", "a">> }

\* the domains of this specification, as the sets and the caches hold them
AdminKnownDomains ==
    {ToLowerCase(d) : d \in AdminDomains} \cup {DomainPartOf(e) : e \in AdminEmails}

InitAdmin ==
    /\ \E setup \in FcSetups :
          /\ fcConfig = setup[1]
          /\ fcData = setup[2]
    /\ fcSets = [disposable |-> {}, allowlist |-> {}, blacklist |-> {}]
    /\ fcIndex = NoIndex
    /\ domainChecker = NewDomainChecker(fcSets, fcConfig, NoIndex, "hybrid")
    /\ fcPc = "loading"
    /\ resultCache = <<>>
    /\ fcLast = FcNoCall("new")
    /\ fcAdmin = [allowed |-> {}, changedAt |-> [d \in AdminKnownDomains |-> 0]]
    /\ BloomIdle
    /\ MergeIdle
    /\ RgIdle
    /\ SmIdle
    /\ TpIdle
    /\ WbIdle
    /\ HpIdle
    /\ DcIdle
    /\ TrieIdle
    /\ MemIdle
    /\ CmIdle
    /\ CbIdle

\* addToAllowlist(domain) / addToBlacklist(domain): the call is passed on to
\* the domain checker, whose sets are the facade's own when the two share them
FcAdminAdd(list, domain) ==
    /\ now < MaxMutations
    /\ now' = now + 1
    /\ domainChecker' = IF list = "allowlist" THEN CheckerAddToAllowlist(domainChecker, domain)
                        ELSE CheckerAddToBlacklist(domainChecker, domain)
    /\ fcSets' = IF domainChecker.shared
                 THEN [fcSets EXCEPT ![list] = @ \cup {ToLowerCase(domain)}]
                 ELSE fcSets
    /\ fcAdmin' = [fcAdmin EXCEPT
                      !.allowed = IF list = "allowlist" THEN @ \cup {ToLowerCase(domain)} ELSE @,
                      !.changedAt[ToLowerCase(domain)] = now + 1]
    /\ fcLast' = FcCall(list, <<domain>>, <<>>, <<>>, FALSE)
    /\ UNCHANGED <<fcConfig, fcData, fcIndex, fcPc, resultCache, memMaxSize, memCache,
                   memRecency, memLast, nonAdminVars>>

FcAdminAddAny      == \E list \in AdminLists, domain \in AdminDomains : FcAdminAdd(list, domain)
FcAdminCheckAny    == \E email \in AdminEmails : FcCheckEmail(email)

NextAdmin ==
    \/ FcLoadAllData
    \/ FcBuildIndex
    \/ FcUpdateComponents
    \/ FcForceUpdate
    \/ FcAdminCheckAny
    \/ FcAdminAddAny

SpecAdmin == InitAdmin /\ [][NextAdmin]_vars

\* the entry of the result cache that answered the last checkEmail
AnsweringEntry == resultCache[MemIndex(resultCache, fcLast.emails[1])]

\* C14: admin mutations invalidate cached results -- a checkEmail for an email
\* at d made after addToAllowlist(d) or addToBlacklist(d) has returned is not
\* answered from a result that was cached before that call.
C14_AdminInvalidatesCache ==
    (fcLast.op = "checkEmail" /\ fcLast.fromCache[1]) =>
        AnsweringEntry.timestamp >= fcAdmin.changedAt[DomainPartOf(fcLast.emails[1])]


\* C15: a domain added with addToAllowlist is never lost -- every checkEmail
\* for an address at a domain that was passed to addToAllowlist reports
\* isAllowed = true (the facade has no call that removes a domain), whether
\* the add was made while the initialisation was loading, before a
\* forceUpdate, or on the initialised checker.
C15_AllowlistAddNeverLost ==
    (fcLast.op = "checkEmail" /\ DomainPartOf(fcLast.emails[1]) \in fcAdmin.allowed) =>
        fcLast.results[1].isAllowed

\* C16: addToAllowlist and addToBlacklist validate the domain format first --
\* a call with a domain that fails the validation does not throw and leaves
\* the allow set, the block set and the trie as they were.
C16_InvalidDomainRejected ==
    [][ (fcLast'.op \in AdminLists /\ ~IsValidDomain(fcLast'.emails[1])) =>
          /\ ~fcLast'.rejected
          /\ SetsOf(domainChecker') = SetsOf(domainChecker)
          /\ domainChecker'.trie = domainChecker.trie ]_vars


(***************************************************************************)
(* The facade while its data and its configuration change: the lists on    *)
(* disk are replaced between two loads, and updateConfig switches the      *)
(* indexing strategy at any point of an initialisation or a forceUpdate.   *)
(***************************************************************************)
\* the lists on disk, before and after an update of the data
SwapCorpora ==
    { [disposable |-> {<<"b", ".", "a">>}, allowlist |-> {}, blacklist |-> {}],
      [disposable |-> {<<"a", ".", "a">>, <<"a", ".", "b">>}, allowlist |-> {},
       blacklist  |-> {}] }

SwapEmails ==
    { <<"a", "@", "b", ".", "a">>, <<"a", "@", "a", ".", "a">>, <<"a", "@", "a", ".", "b">> }

\* buildIndex() under a strategy: the fields it assigns, the others keep the
\* index they had
BuildIndex(indexingStrategy, sets, index) ==
    CASE indexingStrategy = "trie" ->
           [index EXCEPT !.hasTrie = TRUE, !.trie = BuildTrieIndex(sets)]
      [] indexingStrategy = "bloom" ->
           [index EXCEPT !.hasBloom = TRUE, !.bloom = BuildBloomFilter(sets)]
      [] indexingStrategy = "hybrid" ->
           [ hasTrie  |-> TRUE, trie  |-> BuildTrieIndex(sets),
             hasBloom |-> TRUE, bloom |-> BuildBloomFilter(sets) ]
      [] OTHER -> index

\* the data on disk is replaced (a new list was published)
FcDataChange(data) ==
    /\ data # fcData
    /\ fcData' = data
    /\ fcLast' = FcNoCall("dataChange")
    /\ UNCHANGED <<fcConfig, fcSets, fcIndex, domainChecker, fcPc, resultCache, nonFcVars>>

\* updateConfig({indexingStrategy}): void this.buildIndex() runs to its end
\* at once (it has no await), then updateComponents()
FcUpdateConfig(indexingStrategy) ==
    /\ fcConfig' = [fcConfig EXCEPT !.indexingStrategy = indexingStrategy]
    /\ \E index \in { IF fcConfig.enableIndexing
                     THEN BuildIndex(indexingStrategy, fcSets, fcIndex) ELSE fcIndex } :
          /\ fcIndex' = index
          /\ domainChecker' = IF fcConfig.enableIndexing
                              THEN NewDomainChecker(fcSets, fcConfig', index, indexingStrategy)
                              ELSE domainChecker
    /\ fcLast' = FcNoCall("updateConfig")
    /\ UNCHANGED <<fcData, fcSets, fcPc, resultCache, nonFcVars>>

FcDataChangeAny   == \E data \in SwapCorpora : FcDataChange(data)
FcUpdateConfigAny == \E indexingStrategy \in Strategies : FcUpdateConfig(indexingStrategy)
FcSwapCheckAny    == \E email \in SwapEmails : FcCheckEmail(email)

NextSwap ==
    \/ FcLoadAllData
    \/ FcBuildIndex
    \/ FcUpdateComponents
    \/ FcForceUpdate
    \/ FcDataChangeAny
    \/ FcUpdateConfigAny
    \/ FcSwapCheckAny

SpecSwap == InitFacade /\ [][NextSwap]_vars

\* the trie and the Bloom filter of a checker are the ones built from its sets
OneSnapshot(chk) ==
    /\ chk.hasTrie => chk.trie = BuildTrieIndex(SetsOf(chk))
    /\ chk.hasBloom => chk.bloom = BuildBloomFilter(SetsOf(chk))

\* C17: atomic index swap -- under any interleaving of checkEmail with
\* forceUpdate, updateConfig and the initialisation, every lookup is answered
\* by sets, trie and Bloom filter of one snapshot: the trie and the Bloom
\* filter the lookup ran with are the ones built from the sets it ran with.
C17_AtomicIndexSwap == fcLast.op = "checkEmail" => OneSnapshot(domainChecker)


(***************************************************************************)
(* The DomainChecker on its own: one checker constructed with a disposable *)
(* set, any strategy, with or without a trie and a Bloom filter built from *)
(* that set, and served checkDisposableDomain, checkDisposableDomainsBatch *)
(* and clearCache calls.  The trie is an object of one of the two          *)
(* TrieIndex classes; only the pooled class has searchBatch.               *)
(***************************************************************************)
DcCorpora == { {<<"b", ".", "a">>}, {<<"a", ".", "a">>, <<"b", ".", "a">>} }

DcDomains == { <<"b", ".", "a">>, <<"a", ".", "a">>, <<"a", ".", "b", ".", "a">> }

DcBatches == { <<d>> : d \in DcDomains } \cup { <<d, e>> : d, e \in DcDomains }

\* the trie of class impl holding the domains, each inserted as "disposable"
RECURSIVE DcInsertEach(_, _, _)
DcInsertEach(impl, t, domains) ==
    IF domains = {} THEN t
    ELSE LET domain == CHOOSE d \in domains : TRUE
         IN  DcInsertEach(impl, TrieInsert(t, TrieParts(impl, domain), "disposable"),
                          domains \ {domain})

DcSets(disposable) == [disposable |-> disposable, allowlist |-> {}, blacklist |-> {}]

DcCall(op, domains, rejected, results) ==
    [op |-> op, domains |-> domains, rejected |-> rejected, results |-> results]

InitChecker ==
    /\ dcTrieImpl \in TrieImpls
    /\ \E disposable \in DcCorpora, indexingStrategy \in Strategies,
          withTrie \in BOOLEAN, withBloom \in BOOLEAN, subdomains \in BOOLEAN :
          dcChecker =
              NewDomainChecker(
                  DcSets(disposable),
                  [FcConfig(indexingStrategy, FALSE) EXCEPT !.enableSubdomainChecking = subdomains],
                  [ hasTrie  |-> withTrie,
                    trie     |-> IF withTrie
                                 THEN DcInsertEach(dcTrieImpl, EmptyTrie, disposable)
                                 ELSE EmptyTrie,
                    hasBloom |-> withBloom,
                    bloom    |-> IF withBloom THEN BuildBloomFilter(DcSets(disposable))
                                 ELSE NewSimpleBloom(0) ],
                  indexingStrategy)
    /\ dcLast = DcCall("new", <<>>, FALSE, <<>>)
    /\ BloomIdle
    /\ MergeIdle
    /\ RgIdle
    /\ SmIdle
    /\ TpIdle
    /\ WbIdle
    /\ HpIdle
    /\ TrieIdle
    /\ MemIdle
    /\ CmIdle
    /\ CbIdle
    /\ AdminIdle
    /\ FcIdle

\* searchBatch(domains) of the pooled class: search of each domain
SearchBatch(t, domains) ==
    [i \in DOMAIN domains |-> TrieSearch(t, TrieParts("pooled", domains[i]))]

\* the result checkDisposableDomainsBatch makes of one trie result
BatchDomainResult(trieResult) ==
    [ isMatch    |-> trieResult.found,
      matchType  |-> trieResult.matchType,
      confidence |-> trieResult.confidence,
      source     |-> IF trieResult.found THEN "trie" ELSE "" ]

\* the loop over trieResults: each result is stored in the domain cache
RECURSIVE CacheTrieResults(_, _, _, _)
CacheTrieResults(chk, domains, trieResults, i) ==
    IF i > Len(domains) THEN chk
    ELSE CacheTrieResults(
             IF Len(chk.domainCache) < DomainCacheLimit
             THEN [chk EXCEPT !.domainCache =
                      MapSet(@, [key |-> domains[i],
                                 result |-> BatchDomainResult(trieResults[i])])]
             ELSE chk,
             domains, trieResults, i + 1)

\* the fallback: checkDisposableDomain of each uncached domain
RECURSIVE CheckEach(_, _, _)
CheckEach(chk, domains, i) ==
    IF i > Len(domains) THEN chk
    ELSE CheckEach(CheckDisposableDomain(chk, domains[i]).checker, domains, i + 1)

\* checkDisposableDomainsBatch(domains): rejected, the checker afterwards and
\* the result of each domain asked
CheckDisposableDomainsBatch(chk, trieImpl_, domains) ==
    LET cachedKeys == MemKeysOf(chk.domainCache)
        uncachedDomains == SelectSeq(domains, LAMBDA d : d \notin cachedKeys)
    IN  IF uncachedDomains = <<>>
        THEN [ rejected |-> FALSE, checker |-> chk,
               results  |-> [i \in DOMAIN domains |->
                               chk.domainCache[MemIndex(chk.domainCache, domains[i])].result] ]
        ELSE IF chk.hasTrie /\ chk.indexingStrategy # "hash"
        THEN IF trieImpl_ # "pooled"
             THEN [rejected |-> TRUE, checker |-> chk, results |-> <<>>]
             ELSE The({ [ rejected |-> FALSE, checker |-> after,
                          results  |-> [i \in DOMAIN domains |->
                              after.domainCache[MemIndex(after.domainCache, domains[i])].result] ] :
                        after \in { CacheTrieResults(chk, uncachedDomains,
                                        SearchBatch(chk.trie, uncachedDomains), 1) } })
        ELSE The({ [ rejected |-> FALSE, checker |-> after,
                     results  |-> [i \in DOMAIN domains |->
                         after.domainCache[MemIndex(after.domainCache, domains[i])].result] ] :
                   after \in { CheckEach(chk, uncachedDomains, 1) } })

\* await checker.checkDisposableDomain(domain)
DcCheckDisposableDomain(domain) ==
    /\ \E r \in {CheckDisposableDomain(dcChecker, domain)} :
          /\ dcChecker' = r.checker
          /\ dcLast' = DcCall("checkDisposableDomain", <<domain>>, FALSE, <<r.result>>)
    /\ UNCHANGED <<dcTrieImpl, nonDcVars>>

\* await checker.checkDisposableDomainsBatch(domains)
DcCheckDisposableDomainsBatch(domains) ==
    /\ \E r \in {CheckDisposableDomainsBatch(dcChecker, dcTrieImpl, domains)} :
          /\ dcChecker' = r.checker
          /\ dcLast' = DcCall("checkDisposableDomainsBatch", domains, r.rejected, r.results)
    /\ UNCHANGED <<dcTrieImpl, nonDcVars>>

\* checker.clearCache()
DcClearCache ==
    /\ dcChecker.domainCache # <<>>
    /\ dcChecker' = [dcChecker EXCEPT !.domainCache = <<>>]
    /\ dcLast' = DcCall("clearCache", <<>>, FALSE, <<>>)
    /\ UNCHANGED <<dcTrieImpl, nonDcVars>>

DcCheckDisposableDomainAny == \E domain \in DcDomains : DcCheckDisposableDomain(domain)
DcCheckDisposableDomainsBatchAny ==
    \E domains \in DcBatches : DcCheckDisposableDomainsBatch(domains)

NextChecker ==
    \/ DcCheckDisposableDomainAny
    \/ DcCheckDisposableDomainsBatchAny
    \/ DcClearCache

SpecChecker == InitChecker /\ [][NextChecker]_vars

ExactDatabaseHit ==
    [isMatch |-> TRUE, matchType |-> "exact", confidence |-> 100, source |-> "database"]

\* C18: for every domain d of the raw disposable set, checkDisposableDomain(d)
\* returns isMatch = true, matchType "exact", confidence 100, source
\* "database", under each of the four strategies, with or without a Bloom
\* filter built from the set, from the domain cache or not.
C18_ExactHitIsDatabase ==
    (dcLast.op = "checkDisposableDomain" /\ dcLast.domains[1] \in dcChecker.disposable) =>
        dcLast.results[1] = ExactDatabaseHit


(***************************************************************************)
(* Result objects by reference.  A result is an object holding scalar      *)
(* fields and references to its errors and warnings arrays; { ...result }  *)
(* makes a new object with the same scalars and the same two references.   *)
(* checkEmail runs with caching enabled on a memory cache; callers keep    *)
(* the objects they are handed and assign to their fields or push on their *)
(* lists.                                                                  *)
(***************************************************************************)
MaxObjects == 5   \* result objects allocated
MaxListLen == 2   \* length an errors or warnings array is grown to

HpMaxSize == 2

HpConfig == FcConfig("hash", TRUE)

HpChecker ==
    NewDomainChecker([disposable |-> {<<"b", ".", "a">>}, allowlist |-> {}, blacklist |-> {}],
                     HpConfig, NoIndex, "hash")

HpEmails == { <<"a", "@", "b", ".", "a">>, <<"a", "@">> }

ListFields == {"errors", "warnings"}

\* the fields of a result other than its two lists
ScalarsOf(result) == [f \in DOMAIN result \ ListFields |-> result[f]]

\* the value of the object behind a reference: its scalars and the contents
\* of its lists
ValueOf(objects, arrays, ref) ==
    [ scalars  |-> objects[ref].scalars,
      errors   |-> arrays[objects[ref].errors],
      warnings |-> arrays[objects[ref].warnings] ]

HpCall(op, key, hit, value) == [op |-> op, key |-> key, hit |-> hit, value |-> value]

InitHeap ==
    /\ hpObjects = <<>>
    /\ hpArrays = <<>>
    /\ hpCache = <<>>
    /\ hpHeld = {}
    /\ hpStored = [email \in HpEmails |-> <<>>]
    /\ hpLast = HpCall("new", <<>>, FALSE, <<>>)
    /\ BloomIdle
    /\ MergeIdle
    /\ RgIdle
    /\ SmIdle
    /\ TpIdle
    /\ WbIdle
    /\ TrieIdle
    /\ MemIdle
    /\ CmIdle
    /\ CbIdle
    /\ AdminIdle
    /\ DcIdle
    /\ FcIdle

\* cache hit of checkEmail: return { ...cached, validationTime }
HpCheckEmailHit(email, looked) ==
    /\ hpObjects' = Append(hpObjects, hpObjects[looked.result])
    /\ hpCache' = looked.cache
    /\ hpHeld' = hpHeld \cup {Len(hpObjects) + 1}
    /\ hpLast' = HpCall("checkEmail", email, TRUE,
                        ValueOf(hpObjects, hpArrays, looked.result))
    /\ UNCHANGED <<hpArrays, hpStored>>

\* cache miss of checkEmail: performEmailCheck makes the result, set stores
\* { ...result } and the result itself is returned
HpCheckEmailMiss(email, looked) ==
    \E result \in {PerformEmailCheck(HpConfig, HpChecker, email).result} :
       \E made \in {[ scalars  |-> ScalarsOf(result),
                      errors   |-> Len(hpArrays) + 1,
                      warnings |-> Len(hpArrays) + 2 ]} :
          /\ hpArrays' = hpArrays \o <<result.errors, result.warnings>>
          /\ hpObjects' = hpObjects \o <<made, made>>
          /\ hpCache' = MemSet(looked.cache, email, Len(hpObjects) + 2, 0, now,
                               HpMaxSize, DefaultTtl).cache
          /\ hpHeld' = hpHeld \cup {Len(hpObjects) + 1}
          /\ hpStored' = [hpStored EXCEPT ![email] =
                             [scalars |-> made.scalars, errors |-> result.errors,
                              warnings |-> result.warnings]]
          /\ hpLast' = HpCall("checkEmail", email, FALSE,
                              [scalars |-> made.scalars, errors |-> result.errors,
                               warnings |-> result.warnings])

\* await checker.checkEmail(email), caching enabled
HpCheckEmail(email) ==
    /\ Len(hpObjects) + 2 <= MaxObjects
    /\ \E looked \in {MemGet(hpCache, email, now)} :
          IF looked.hit THEN HpCheckEmailHit(email, looked)
          ELSE HpCheckEmailMiss(email, looked)
    /\ UNCHANGED nonHpVars

\* await cache.get(key): the entry's own result object is returned
HpGet(key) ==
    /\ key \in MemKeysOf(hpCache) => hpCache[MemIndex(hpCache, key)].hitCount < MaxHits
    /\ \E looked \in {MemGet(hpCache, key, now)} :
          /\ hpCache' = looked.cache
          /\ hpHeld' = IF looked.hit THEN hpHeld \cup {looked.result} ELSE hpHeld
          /\ hpLast' = HpCall("get", key, looked.hit,
                              IF looked.hit THEN ValueOf(hpObjects, hpArrays, looked.result)
                              ELSE <<>>)
    /\ UNCHANGED <<hpObjects, hpArrays, hpStored, nonHpVars>>

\* a caller assigns to a field of a result it holds
HpAssign(ref) ==
    /\ hpObjects' = [hpObjects EXCEPT ![ref].scalars.isDisposable = ~@]
    /\ hpLast' = HpCall("assign", <<>>, FALSE, <<>>)
    /\ UNCHANGED <<hpArrays, hpCache, hpHeld, hpStored, nonHpVars>>

\* a caller pushes on the errors or warnings list of a result it holds
HpPush(ref, field) ==
    /\ Len(hpArrays[hpObjects[ref][field]]) < MaxListLen
    /\ hpArrays' = [hpArrays EXCEPT ![hpObjects[ref][field]] = Append(@, "x")]
    /\ hpLast' = HpCall("push", <<>>, FALSE, <<>>)
    /\ UNCHANGED <<hpObjects, hpCache, hpHeld, hpStored, nonHpVars>>

HpCheckEmailAny == \E email \in HpEmails : HpCheckEmail(email)
HpGetAny        == \E key \in HpEmails : HpGet(key)
HpAssignAny     == \E ref \in hpHeld : HpAssign(ref)
HpPushAny       == \E ref \in hpHeld, field \in ListFields : HpPush(ref, field)

NextHeap ==
    \/ HpCheckEmailAny
    \/ HpGetAny
    \/ HpAssignAny
    \/ HpPushAny

SpecHeap == InitHeap /\ [][NextHeap]_vars

\* C19: the result cache never aliases mutable state with its callers --
\* whatever callers do to the object passed to set or to an object returned
\* by get or by a cache-hit checkEmail (its errors and warnings lists
\* included), a later get or cache-hit checkEmail of the key returns the
\* value that was stored for it.
C19_CacheNeverAliases ==
    (hpLast.op \in {"get", "checkEmail"} /\ hpLast.hit) =>
        hpLast.value = hpStored[hpLast.key]


(***************************************************************************)
(* The facade over lists that never change: initialisation, forceUpdate    *)
(* and lookups only.                                                       *)
(***************************************************************************)
NextTransparent ==
    \/ FcLoadAllData
    \/ FcBuildIndex
    \/ FcUpdateComponents
    \/ FcForceUpdate
    \/ FcCheckEmailAny

SpecTransparent == InitFacade /\ [][NextTransparent]_vars

\* the fields of a result the cache has to preserve
Verdict(result) ==
    [ isValid       |-> result.isValid,
      isDisposable  |-> result.isDisposable,
      isAllowed     |-> result.isAllowed,
      isBlacklisted |-> result.isBlacklisted,
      matchType     |-> result.matchType,
      confidence    |-> result.confidence,
      domain        |-> result.domain ]

\* C21: the cache is transparent -- over lists that do not change, every
\* checkEmail(e), answered from the result cache or not, returns the isValid,
\* isDisposable, isAllowed, isBlacklisted, matchType, confidence and domain
\* that the same checker computes for e with caching disabled.
C21_CacheTransparent ==
    [][ (fcLast'.op = "checkEmail" /\ ~fcLast'.rejected) =>
            Verdict(fcLast'.results[1]) =
                Verdict(CheckEmail([fcConfig EXCEPT !.enableCaching = FALSE], domainChecker,
                                   <<>>, fcLast'.emails[1], now).result) ]_vars


(***************************************************************************)
(* Write batching of the CacheManager against the clock, over a backend    *)
(* with setBatch.  Time advances in ms; a timer that is due fires before   *)
(* the clock moves on.  setBatch may fail; the batch was handed to it      *)
(* either way.                                                             *)
(***************************************************************************)
BATCH_DELAY == 10

MaxWbSets == 3     \* set calls made
MaxWbTime == 14    \* the clock stops here; no set is made that could not be flushed by then

NoTimer == 0 - 1

\* mutant of ArmTimer: every set starts the delay again
ArmTimerAgain(timer, t) == t + BATCH_DELAY

\* set: else if (!this.batchTimeout) this.batchTimeout = setTimeout(.., BATCH_DELAY)
ArmTimer(timer, t) == IF timer = NoTimer THEN t + BATCH_DELAY ELSE timer

\* writes waiting for the batch timer when the model starts, all enqueued at
\* time 0: none, or so many that the second set call fills the batch
WbQueued == {0, BATCH_SIZE - 2}

InitWB ==
    /\ \E n \in WbQueued :
          /\ wbQueue = [i \in 1..n |-> [at |-> 0]]
          /\ wbTimer = IF n > 0 THEN BATCH_DELAY ELSE NoTimer
          /\ wbCounts = [enqueued |-> n, handed |-> 0, sets |-> 0]
    /\ wbNow = 0
    /\ wbLast = "new"
    /\ BloomIdle
    /\ MergeIdle
    /\ RgIdle
    /\ SmIdle
    /\ TpIdle
    /\ TrieIdle
    /\ MemIdle
    /\ CmIdle
    /\ CbIdle
    /\ AdminIdle
    /\ DcIdle
    /\ HpIdle
    /\ FcIdle

\* flushSetBatch(): the timer is cleared and the whole queue is handed to
\* setBatch, unless it is empty
WbFlushSetBatch(queue) ==
    /\ wbTimer' = NoTimer
    /\ wbQueue' = <<>>

\* set(email, result) on a backend with setBatch
WbSet ==
    /\ wbCounts.sets < MaxWbSets
    /\ wbNow + BATCH_DELAY <= MaxWbTime
    /\ \E queue \in {Append(wbQueue, [at |-> wbNow])} :
          IF Len(queue) >= BATCH_SIZE
          THEN /\ WbFlushSetBatch(queue)
               /\ wbCounts' = [wbCounts EXCEPT !.enqueued = @ + 1, !.sets = @ + 1,
                                               !.handed = @ + Len(queue)]
               /\ wbLast' = "setFlush"
          ELSE /\ wbQueue' = queue
               /\ wbTimer' = ArmTimer(wbTimer, wbNow)
               /\ wbCounts' = [wbCounts EXCEPT !.enqueued = @ + 1, !.sets = @ + 1]
               /\ wbLast' = "set"
    /\ UNCHANGED <<wbNow, nonWbVars>>

\* the batch timer fires, not before it is due
WbTimerFire ==
    /\ wbTimer # NoTimer
    /\ wbNow >= wbTimer
    /\ WbFlushSetBatch(wbQueue)
    /\ wbCounts' = [wbCounts EXCEPT !.handed = @ + Len(wbQueue)]
    /\ wbLast' = "timer"
    /\ UNCHANGED <<wbNow, nonWbVars>>

\* clear(), close() or switchCache(): await this.flushSetBatch()
WbFlushCall ==
    /\ wbLast # "flush"
    /\ WbFlushSetBatch(wbQueue)
    /\ wbCounts' = [wbCounts EXCEPT !.handed = @ + Len(wbQueue)]
    /\ wbLast' = "flush"
    /\ UNCHANGED <<wbNow, nonWbVars>>

\* one ms passes; a timer that is due fires first
WbTick ==
    /\ wbNow < MaxWbTime
    /\ wbTimer # NoTimer => wbNow < wbTimer
    /\ wbNow' = wbNow + 1
    /\ wbLast' = "tick"
    /\ UNCHANGED <<wbQueue, wbTimer, wbCounts, nonWbVars>>

NextWB ==
    \/ WbSet
    \/ WbTimerFire
    \/ WbFlushCall
    \/ WbTick

\* the timer callback and the clock are never held up forever
SpecWB == InitWB /\ [][NextWB]_vars /\ WF_vars(WbTimerFire) /\ WF_vars(WbTick)

\* the queue stays below the batch size, no queued write is older than the
\* delay, a timer due BATCH_DELAY after the first queued write is armed
\* whenever the queue is not empty, and no write is lost or handed twice
WbBounded ==
    /\ Len(wbQueue) < BATCH_SIZE
    /\ \A i \in DOMAIN wbQueue : wbNow - wbQueue[i].at <= BATCH_DELAY
    /\ wbQueue # <<>> => wbTimer = wbQueue[1].at + BATCH_DELAY
    /\ wbCounts.enqueued = wbCounts.handed + Len(wbQueue)

\* C22: write batching -- with a backend that has setBatch, every write
\* enqueued by set is handed to setBatch as soon as the queue reaches 100
\* items or within 10 ms of the first enqueued and not yet flushed write;
\* while the queue is not empty the flush timer is armed, and no write stays
\* queued forever.
C22_WriteBatching == []WbBounded /\ ((wbQueue # <<>>) ~> (wbQueue = <<>>))

\* a queue filled to the batch size was flushed by set, and a queued write
\* was flushed by the timer after the full delay
C22_Witness ==
    /\ wbLast = "timer"
    /\ wbCounts.handed > 0
    /\ wbNow >= BATCH_DELAY + 1

C22_WitnessFull == wbLast = "setFlush" /\ wbCounts.handed >= BATCH_SIZE

(***************************************************************************)
(* The batching cache manager closed from a task of its own: close() is    *)
(* called when no get is between the backend's answer and its own          *)
(* continuation, and no get is issued while a close() is running.  A get   *)
(* that settles without being the registered promise of its key was        *)
(* therefore awaiting the backend when a close() was called.               *)
(***************************************************************************)
CbGetOutsideClose == cbOp.pc = "idle" /\ CbGetAny

CbCloseFromTask ==
    /\ \A p \in DOMAIN cbPromises : cbPromises[p].state # "resolved"
    /\ CbCloseStartAny

NextClose ==
    \/ CbGetOutsideClose
    \/ CbBackendReplyAny
    \/ CbGetFinallyAny
    \/ CbSetAny
    \/ CbTimerFireAny
    \/ CbCloseFromTask
    \/ CbCloseBackendAny
    \/ CbCloseFinish

SpecClose == InitCMB /\ [][NextClose]_vars

\* C23: closing the cache cancels the in-flight coalesced backend call -- a
\* get(key) that was awaiting the backend when close() was called does not
\* deliver that backend call's result: it rejects or resolves with null.
C23_CloseCancelsInFlightGet ==
    [][ \A p \in DOMAIN cbPromises :
           ( /\ cbPromises[p].state = "resolved"
             /\ cbPromises'[p].state = "done"
             /\ ~( /\ cbPromises[p].key \in DOMAIN cbPending
                   /\ cbPending[cbPromises[p].key] = p ) ) =>
               (cbLast'.outcome.rejected \/ cbLast'.outcome.value = "null") ]_vars


(***************************************************************************)
(* performEmailCheck with every step: a facade whose initialisation has    *)
(* completed, over each setting of enablePatternMatching and checkMxRecord,*)
(* asked about emails whose pattern score lies on either side of 80.       *)
(***************************************************************************)

\* performEmailCheck, step 7, where hasMx is what checkMxRecord resolved
\* with (it catches the resolver's errors and resolves with false)
MxCheck(cfg, result, hasMx) ==
    IF cfg.checkMxRecord /\ ~hasMx
    THEN [result EXCEPT !.warnings   = Append(@, "No MX record found for domain"),
                        !.confidence = Max(@, 60)]
    ELSE result

\* performEmailCheck(email) of a facade that may have checkMxRecord set
PerformEmailCheckMx(cfg, chk, email, hasMx) ==
    The({ IF r.threw \/ ~r.result.isValid \/ r.result.isAllowed
          THEN r
          ELSE [r EXCEPT !.result = MxCheck(cfg, @, hasMx)] :
          r \in {PerformEmailCheck(cfg, chk, email)} })

PfConfig(indexingStrategy, enablePatternMatching, checkMxRecord) ==
    [FcConfig(indexingStrategy, FALSE) EXCEPT
        !.enablePatternMatching = enablePatternMatching]
    @@ [checkMxRecord |-> checkMxRecord]

PfConfigs ==
    { PfConfig(s, p, m) : s \in {"hash", "hybrid"}, p \in BOOLEAN, m \in BOOLEAN }

\* the lists: a disposable domain alone; also allow- and block-listed; with
\* a block-listed subdomain of it; a block-listed domain that is not
\* disposable; a disposable domain with a doubled dash, alone and allow-listed
PfCorpora ==
    LET ba  == <<"b", ".", "a">>
        aba == <<"a", ".", "b", ".", "a">>
        bda == <<"b", "-", "-", "a">>
    IN  { [disposable |-> {ba},  allowlist |-> {},    blacklist |-> {}],
          [disposable |-> {ba},  allowlist |-> {ba},  blacklist |-> {ba}],
          [disposable |-> {ba},  allowlist |-> {},    blacklist |-> {aba}],
          [disposable |-> {},    allowlist |-> {},    blacklist |-> {ba}],
          [disposable |-> {bda}, allowlist |-> {},    blacklist |-> {}],
          [disposable |-> {bda}, allowlist |-> {bda}, blacklist |-> {}] }

\* the emails: pattern scores 0 (aaaa@), 35 (a@), 75 (1@), 85 (111@b--a) and
\* 100 (1@b--a); a trusted domain; one the validator rejects
PfEmails ==
    { <<"a", "a", "a", "a", "@", "b", ".", "a">>,
      <<"a", "@", "b", ".", "a">>,
      <<"1", "@", "b", ".", "a">>,
      <<"a", "@", "a", ".", "b", ".", "a">>,
      <<"1", "@", "b", "-", "-", "a">>,
      <<"1", "1", "1", "@", "b", "-", "-", "a">>,
      <<"1", "@", "b", ".", "b">>,
      <<"a", "@">> }

InitPerform ==
    /\ fcConfig \in PfConfigs
    /\ fcData \in PfCorpora
    /\ fcSets = fcData
    /\ fcIndex = BuildIndex(fcConfig.indexingStrategy, fcSets, NoIndex)
    /\ domainChecker = NewDomainChecker(fcSets, fcConfig, fcIndex,
                                        fcConfig.indexingStrategy)
    /\ fcPc = "ready"
    /\ resultCache = <<>>
    /\ fcLast = FcNoCall("new") @@ [hasMx |-> TRUE]
    /\ BloomIdle
    /\ TrieIdle
    /\ MemIdle
    /\ CmIdle
    /\ CbIdle
    /\ MergeIdle
    /\ RgIdle
    /\ SmIdle
    /\ TpIdle
    /\ WbIdle
    /\ HpIdle
    /\ DcIdle
    /\ AdminIdle

\* performEmailCheck(email), the resolver finding an MX record or none
FcPerformEmailCheck(email, hasMx) ==
    \E r \in {PerformEmailCheckMx(fcConfig, domainChecker, email, hasMx)} :
        /\ domainChecker' = r.checker
        /\ fcLast' = FcCall("performEmailCheck", <<email>>, <<r.result>>, <<FALSE>>,
                            r.threw) @@ [hasMx |-> hasMx]
        /\ UNCHANGED <<fcConfig, fcData, fcSets, fcIndex, fcPc, resultCache, nonFcVars>>

NextPerform == \E email \in PfEmails, hasMx \in BOOLEAN : FcPerformEmailCheck(email, hasMx)

SpecPerform == InitPerform /\ [][NextPerform]_vars

\* what performEmailCheck answers with the pattern heuristics switched off
WithoutPatterns(cfg, chk, email, hasMx) ==
    PerformEmailCheckMx([cfg EXCEPT !.enablePatternMatching = FALSE], chk, email,
                        hasMx).result

\* C24: the pattern-heuristic merge never turns isDisposable from true to
\* false, sets it to true only when the suspicion score is at least 80, and
\* is not applied at all to an allow-listed domain.
C24_PatternMergeOnlyUpgrades ==
    [][ fcLast'.op = "performEmailCheck" =>
          \E result \in {fcLast'.results[1]},
             plain \in {WithoutPatterns(fcConfig, domainChecker, fcLast'.emails[1],
                                        fcLast'.hasMx)} :
             /\ plain.isDisposable => result.isDisposable
             /\ (result.isDisposable /\ ~plain.isDisposable) =>
                    AnalyzePatterns(fcLast'.emails[1], result.localPart,
                                    result.domain).suspiciousScore >= 80
             /\ result.isAllowed => result = plain /\ result.warnings = <<>> ]_vars

\* an upgrade happened: the lists do not hold the domain, the score does it
C24_Witness ==
    /\ fcLast.op = "performEmailCheck"
    /\ fcConfig.enablePatternMatching
    /\ fcLast.results[1].isDisposable
    /\ fcLast.results[1].matchType = "pattern"
    /\ fcLast.results[1].domain \notin fcSets.disposable


\* the largest number of a non-empty finite set
Largest(numbers) == CHOOSE n \in numbers : \A m \in numbers : m <= n

\* the confidences of the checks that applied to a well-formed email whose
\* domain is not allow-listed, each computed on its own
AppliedConfidences(cfg, chk, email, hasMx) ==
    LET parsed    == ParseEmail(email)
        blacklist == CheckBlacklist(chk, parsed.domain)
        match     == CheckDisposableDomain(chk, parsed.domain).result
        pattern   == AnalyzePatterns(email, parsed.localPart, parsed.domain)
    IN  [ blacklist  |-> blacklist.isMatch,
          disposable |-> match.isMatch,
          values     |-> {0}
                \cup (IF blacklist.isMatch THEN {blacklist.confidence} ELSE {})
                \cup (IF match.isMatch THEN {match.confidence} ELSE {})
                \cup (IF cfg.enablePatternMatching THEN {pattern.suspiciousScore} ELSE {})
                \cup (IF cfg.checkMxRecord /\ ~hasMx THEN {60} ELSE {}) ]

\* C25: every result has confidence in [0,100]; for a well-formed email whose
\* domain is not allow-listed it is the maximum of the block-list confidence,
\* the disposable-match confidence, the capped pattern score and the MX
\* penalty that applied, and a block-list match is recorded while the later
\* checks still run.
C25_ConfidenceIsMaximum ==
    [][ fcLast'.op = "performEmailCheck" =>
          \E result \in {fcLast'.results[1]} :
             /\ result.confidence \in 0..100
             /\ (result.isValid /\ ~result.isAllowed) =>
                  \E applied \in {AppliedConfidences(fcConfig, domainChecker,
                                                     fcLast'.emails[1], fcLast'.hasMx)} :
                     /\ result.confidence = Largest(applied.values)
                     /\ result.isBlacklisted = applied.blacklist
                     /\ applied.disposable => result.isDisposable ]_vars

\* a block-listed domain that also matched as disposable with a lower
\* confidence, the MX penalty applying too
C25_Witness ==
    /\ fcLast.op = "performEmailCheck"
    /\ fcLast.results[1].isBlacklisted
    /\ fcLast.results[1].isDisposable
    /\ fcLast.results[1].source # ""
    /\ fcLast.results[1].matchType = "subdomain"
    /\ fcLast.results[1].confidence = 100
    /\ fcConfig.checkMxRecord
    /\ ~fcLast.hasMx


\* the filter after add(item) for every item of a set
RECURSIVE SeededAddAll(_, _)
SeededAddAll(bf, items) ==
    IF items = {} THEN bf
    ELSE LET item == CHOOSE i \in items : TRUE
         IN  SeededAddAll(SeededAdd(bf, item), items \ {item})

\* bf is the filter that adding exactly these items to a cleared bf gives
BuiltFrom(bf, items) == bf = SeededAddAll(SeededClear(bf), items)

\* C26: merge(other) with identical (m,k) makes this filter the filter built
\* by adding the union of both item sets: it contains every item added to
\* either filter, and merging is idempotent and commutative on the resulting
\* bit array (other is only read).
C26_MergeIsUnion ==
    [][ ( /\ mergeLast'.calls # mergeLast.calls
          /\ mergeLast'.other.size = seededBloom.size
          /\ mergeLast'.other.numHashFunctions = seededBloom.numHashFunctions )
        => \E other \in {mergeLast'.other} :
             /\ \A mine, theirs \in SUBSET MergeItems :
                   (BuiltFrom(seededBloom, mine) /\ BuiltFrom(other, theirs)) =>
                       /\ BuiltFrom(seededBloom', mine \cup theirs)
                       /\ \A x \in mine \cup theirs : SeededContains(seededBloom', x)
             /\ MergeBits(seededBloom', other) = seededBloom'
             /\ MergeBits(other, seededBloom).bitArray = seededBloom'.bitArray ]_vars

\* a filter holding one item was merged with a filter of the same
\* parameters holding the other item, and now holds both
C26_Witness ==
    /\ mergeLast.calls > 0
    /\ ~mergeLast.threw
    /\ bloomAdded # {}
    /\ \E theirs \in MergeItems \ bloomAdded :
          /\ BuiltFrom(mergeLast.other, {theirs})
          /\ BuiltFrom(seededBloom, bloomAdded \cup {theirs})
    /\ seededBloom.bitArray # mergeLast.other.bitArray
    /\ ~BuiltFrom(seededBloom, bloomAdded)


(***************************************************************************)
(* MemoryCache.cleanup with its argument and its return value.  cleanup()  *)
(* is called with no argument (by the interval timer) or with a number of  *)
(* milliseconds, zero included.                                            *)
(***************************************************************************)

\* removedCount of cleanup(ttlMs) at time t, counted as the loop deletes
RECURSIVE CleanupRemoved(_, _, _)
CleanupRemoved(c, ttlMs, t) ==
    LET threshold == IF ttlMs # 0 THEN ttlMs ELSE DefaultTtl
    IN  IF c = <<>> THEN 0
        ELSE IF Head(c).ttl # 0 /\ t - Head(c).timestamp > threshold
        THEN CleanupRemoved(Tail(c), ttlMs, t) + 1
        ELSE CleanupRemoved(Tail(c), ttlMs, t)

\* the arguments of a cleanup call: none, or one number
CleanupArgs == {<<>>, <<0>>, <<1>>}

\* cleanup(...args): an absent ttlMs is undefined, which is falsy as 0 is
MemCleanupWith(args) ==
    \E ttlMs \in {IF args = <<>> THEN 0 ELSE args[1]} :
        /\ memCache' = MemCleanup(memCache, ttlMs, now)
        /\ memRecency' = Touch(memRecency, <<>>, memCache')
        /\ memLast' = MemCall("cleanup", "", FALSE, "", <<>>)
                        @@ [args |-> args, removed |-> CleanupRemoved(memCache, ttlMs, now)]
        /\ UNCHANGED <<memMaxSize, now, nonMemVars>>

MemCleanupWithAny == \E args \in CleanupArgs : MemCleanupWith(args)

NextCleanup ==
    \/ MemGetAny
    \/ MemSetAny
    \/ MemCleanupWithAny
    \/ Tick

SpecCleanup == InitMem /\ [][NextCleanup]_vars

\* C27: cleanup(ttlOverride) removes exactly the entries whose age exceeds
\* the threshold (the override if given, else the default TTL), returns the
\* number removed, which is the decrease in size, and leaves the other
\* entries, with result and hitCount, in their order.
C27_CleanupRemovesExactlyExpired ==
    [][ MemCallStep("cleanup") =>
          LET threshold == IF memLast'.args # <<>> THEN memLast'.args[1] ELSE DefaultTtl
              young(entry) == ~(now - entry.timestamp > threshold)
              kept == SelectSeq(memCache, young)
          IN  /\ memCache' = kept
              /\ memLast'.removed = Len(memCache) - Len(kept)
              /\ memLast'.removed = Len(memCache) - Len(memCache')
              /\ memRecency' = KeepKeys(memRecency, MemKeysOf(kept)) ]_vars


(***************************************************************************)
(* The pooled TrieIndex with its node pool.  TrieNodes are objects: a heap *)
(* of nodes by reference, each with its children as a Map (part and child  *)
(* reference, in insertion order).  nodePool is module state, shared by    *)
(* every pooled TrieIndex.  A heap state is a record of the nodes, the     *)
(* references pushed on the pool, and the count of nodes below them.       *)
(***************************************************************************)
NODE_POOL_LIMIT == 10000

MaxTpNodes == 5       \* TrieNodes allocated by the pooled tries under test

\* new TrieNode()
TpNewNode == [children |-> <<>>, isEndOfDomain |-> FALSE, source |-> ""]

\* node.children.get(part): the child's reference, 0 when undefined
ChildOf(node, part) ==
    IF \E i \in DOMAIN node.children : node.children[i].part = part
    THEN node.children[CHOOSE i \in DOMAIN node.children : node.children[i].part = part].node
    ELSE 0

\* nodePool.length
PoolLength(st) == st.spare + Len(st.pool)

\* mutant of GetPooledNode: the popped node is handed out as it is
GetPooledNodeAsIs(st) ==
    IF st.pool # <<>>
    THEN [ st     |-> [st EXCEPT !.pool = SubSeq(@, 1, Len(@) - 1)],
           node   |-> st.pool[Len(st.pool)],
           pooled |-> TRUE ]
    ELSE [ st     |-> [st EXCEPT !.nodes = Append(@, TpNewNode),
                                 !.spare = IF @ > 0 THEN @ - 1 ELSE 0],
           node   |-> Len(st.nodes) + 1,
           pooled |-> st.spare > 0 ]

\* getPooledNode(): the heap afterwards, the node returned, and whether it
\* came from the pool.  A node from the bottom of the pool is new to the
\* tries under test and is given the next reference.
GetPooledNode(st) ==
    IF st.pool # <<>>
    THEN [ st     |-> [st EXCEPT !.pool = SubSeq(@, 1, Len(@) - 1),
                                 !.nodes[st.pool[Len(st.pool)]] = TpNewNode],
           node   |-> st.pool[Len(st.pool)],
           pooled |-> TRUE ]
    ELSE [ st     |-> [st EXCEPT !.nodes = Append(@, TpNewNode),
                                 !.spare = IF @ > 0 THEN @ - 1 ELSE 0],
           node   |-> Len(st.nodes) + 1,
           pooled |-> st.spare > 0 ]

\* mutant of ReturnNodeToPool: the node is pushed whatever the pool holds
ReturnNodeAlways(st, node) == [st EXCEPT !.pool = Append(@, node)]

\* returnNodeToPool(node)
ReturnNodeToPool(st, node) ==
    IF PoolLength(st) < NODE_POOL_LIMIT THEN [st EXCEPT !.pool = Append(@, node)] ELSE st

\* the for loop of the pooled insert from parts[i] on: w.st is the heap,
\* w.node is currentNode, w.taken the nodes getPooledNode returned from the
\* pool, each as it was returned
RECURSIVE PooledInsertWalk(_, _, _)
PooledInsertWalk(w, parts, i) ==
    IF i > Len(parts) THEN w
    ELSE IF ChildOf(w.st.nodes[w.node], parts[i]) # 0
    THEN PooledInsertWalk([w EXCEPT !.node = ChildOf(w.st.nodes[w.node], parts[i])],
                          parts, i + 1)
    ELSE PooledInsertWalk(
             The({ [ st    |-> [got.st EXCEPT !.nodes[w.node].children =
                                    Append(@, [part |-> parts[i], node |-> got.node])],
                     node  |-> got.node,
                     taken |-> IF got.pooled
                               THEN Append(w.taken, got.st.nodes[got.node])
                               ELSE w.taken ] :
                   got \in {GetPooledNode(w.st)} }),
             parts, i + 1)

\* insert(domain, source) of the pooled class on the trie rooted at root
PooledInsert(st, root, domain, source) ==
    The({ [ st    |-> [w.st EXCEPT !.nodes[w.node].isEndOfDomain = TRUE,
                                   !.nodes[w.node].source = source],
            taken |-> w.taken ] :
          w \in {PooledInsertWalk([st |-> st, node |-> root, taken |-> <<>>],
                                  TrieParts("pooled", domain), 1)} })

\* the for loop of the pooled search
RECURSIVE PooledSearchWalk(_, _, _, _, _)
PooledSearchWalk(nodes, parts, i, node, m) ==
    IF i > Len(parts) THEN m
    ELSE IF ChildOf(nodes[node], parts[i]) # 0
    THEN PooledSearchWalk(nodes, parts, i + 1, ChildOf(nodes[node], parts[i]),
             IF nodes[ChildOf(nodes[node], parts[i])].isEndOfDomain
             THEN [ exactMatch     |-> m.exactMatch \/ i = Len(parts),
                    subdomainMatch |-> m.subdomainMatch \/ i # Len(parts),
                    matchSource    |-> nodes[ChildOf(nodes[node], parts[i])].source ]
             ELSE m)
    ELSE m

\* search(domain) of the pooled class on the trie rooted at root
PooledSearch(nodes, root, domain) ==
    LET m == PooledSearchWalk(nodes, TrieParts("pooled", domain), 1, root,
                 [exactMatch |-> FALSE, subdomainMatch |-> FALSE, matchSource |-> ""])
    IN  IF m.exactMatch
        THEN [found |-> TRUE, matchType |-> "exact", confidence |-> 100, source |-> m.matchSource]
        ELSE IF m.subdomainMatch
        THEN [found |-> TRUE, matchType |-> "subdomain", confidence |-> 85, source |-> m.matchSource]
        ELSE NotFound

\* clearNode(node): the children from the k-th on are cleared and returned
\* to the pool, then node.children.clear()
RECURSIVE ClearNodeFrom(_, _, _)
ClearNodeFrom(st, node, k) ==
    IF k > Len(st.nodes[node].children)
    THEN [st EXCEPT !.nodes[node].children = <<>>]
    ELSE ClearNodeFrom(
             ReturnNodeToPool(ClearNodeFrom(st, st.nodes[node].children[k].node, 1),
                              st.nodes[node].children[k].node),
             node, k + 1)

ClearNode(st, node) == ClearNodeFrom(st, node, 1)

\* clear(): the heap afterwards and the new root
PooledClear(st, root) ==
    The({ [st |-> [cleared EXCEPT !.nodes = Append(@, TpNewNode)],
           root |-> Len(cleared.nodes) + 1] :
          cleared \in {ClearNode(st, root)} })

(***************************************************************************)
(* Specification: two pooled tries sharing the pool, each next to a        *)
(* trie-index.ts trie given the same calls.  The pool starts empty, or one *)
(* node short of its limit: filled by the clear() of a trie made earlier,  *)
(* before or after the first trie under test was given a domain.           *)
(***************************************************************************)
TpTries   == {1, 2}
TpDomains == {<<"a">>, <<"b", ".", "a">>}
TpQueries == {<<"a">>, <<"b", ".", "a">>, <<"a", ".", "a">>, <<"a", ".", "b", ".", "a">>, <<"b">>}

\* the two tries as constructed, over an empty pool
TpNewTries ==
    [ st     |-> [nodes |-> [t \in TpTries |-> TpNewNode], pool |-> <<>>, spare |-> 0],
      simple |-> [t \in TpTries |-> EmptyTrie] ]

\* the states the specification starts from
TpStarts ==
    LET ba == <<"b", ".", "a">>
    IN  { TpNewTries,
          [TpNewTries EXCEPT !.st.spare = NODE_POOL_LIMIT - 1],
          [ st     |-> [PooledInsert(TpNewTries.st, 1, ba, "disposable").st EXCEPT
                           !.spare = NODE_POOL_LIMIT - 1],
            simple |-> [TpNewTries.simple EXCEPT
                           ![1] = TrieInsert(@, TrieParts("simple", ba), "disposable")] ] }

TpHeap == [nodes |-> tpNodes, pool |-> nodePool, spare |-> tpSpare]

TpCall(op, t, domain, taken, result) ==
    [op |-> op, trie |-> t, domain |-> domain, taken |-> taken, result |-> result]

InitPool ==
    /\ \E start \in TpStarts :
          /\ tpNodes = start.st.nodes
          /\ nodePool = start.st.pool
          /\ tpSpare = start.st.spare
          /\ tpSimple = start.simple
    /\ tpRoots = [t \in TpTries |-> t]
    /\ tpLast = TpCall("new", 0, <<>>, <<>>, NotFound)
    /\ BloomIdle
    /\ TrieIdle
    /\ MemIdle
    /\ CmIdle
    /\ CbIdle
    /\ MergeIdle
    /\ RgIdle
    /\ SmIdle
    /\ WbIdle
    /\ HpIdle
    /\ DcIdle
    /\ AdminIdle
    /\ FcIdle

\* tries[t].insert(domain, source)
TpInsert(t, domain, source) ==
    \E r \in {PooledInsert(TpHeap, tpRoots[t], domain, source)} :
        /\ Len(r.st.nodes) <= MaxTpNodes
        /\ tpNodes' = r.st.nodes
        /\ nodePool' = r.st.pool
        /\ tpSpare' = r.st.spare
        /\ tpSimple' = [tpSimple EXCEPT ![t] = TrieInsert(@, TrieParts("simple", domain), source)]
        /\ tpLast' = TpCall("insert", t, domain, r.taken, NotFound)
        /\ UNCHANGED <<tpRoots, nonTpVars>>

\* tries[t].clear()
TpClear(t) ==
    \E r \in {PooledClear(TpHeap, tpRoots[t])} :
        /\ Len(r.st.nodes) <= MaxTpNodes
        /\ tpNodes' = r.st.nodes
        /\ nodePool' = r.st.pool
        /\ tpSpare' = r.st.spare
        /\ tpRoots' = [tpRoots EXCEPT ![t] = r.root]
        /\ tpSimple' = [tpSimple EXCEPT ![t] = EmptyTrie]
        /\ tpLast' = TpCall("clear", t, <<>>, <<>>, NotFound)
        /\ UNCHANGED nonTpVars

\* tries[t].search(domain)
TpSearch(t, domain) ==
    /\ tpLast' = TpCall("search", t, domain, <<>>, PooledSearch(tpNodes, tpRoots[t], domain))
    /\ UNCHANGED <<tpNodes, nodePool, tpSpare, tpRoots, tpSimple, nonTpVars>>

TpInsertAny == \E t \in TpTries, domain \in TpDomains, source \in TrieSources : TpInsert(t, domain, source)
TpClearAny  == \E t \in TpTries : TpClear(t)
TpSearchAny == \E t \in TpTries, domain \in TpQueries : TpSearch(t, domain)

NextPool ==
    \/ TpInsertAny
    \/ TpClearAny
    \/ TpSearchAny

SpecPool == InitPool /\ [][NextPool]_vars

\* the nodes reachable from a node, itself included
RECURSIVE TpReachable(_, _)
TpReachable(nodes, node) ==
    {node} \cup UNION { TpReachable(nodes, nodes[node].children[i].node) :
                         i \in DOMAIN nodes[node].children }

\* C28: the pooled trie is observationally equivalent to the unpooled one --
\* after any insert and clear calls on tries sharing the node pool, every
\* search of a pooled trie returns what the trie-index.ts trie given the same
\* calls returns.
C28_PooledEquivalent ==
    /\ \A t \in TpTries, domain \in TpQueries :
          PooledSearch(tpNodes, tpRoots[t], domain) =
              TrieSearch(tpSimple[t], TrieParts("simple", domain))
    /\ tpLast.op = "search" =>
          tpLast.result = TrieSearch(tpSimple[tpLast.trie], TrieParts("simple", tpLast.domain))

\* a search found a domain in a trie that holds a node allocated before the
\* trie's root was: a node that went through the pool
C28_Witness ==
    /\ tpLast.op = "search"
    /\ tpLast.result.found
    /\ \E node \in TpReachable(tpNodes, tpRoots[tpLast.trie]) : node < tpRoots[tpLast.trie]
    /\ \E t \in TpTries : tpRoots[t] > Cardinality(TpTries)

\* C29: the pool never holds more than 10,000 nodes; a node taken from the
\* pool has no children, isEndOfDomain = false and an empty source; and no
\* node is at once in the pool and reachable from the root of a trie.
C29_PoolInvariants ==
    /\ PoolLength(TpHeap) <= NODE_POOL_LIMIT
    /\ \A i \in DOMAIN tpLast.taken : tpLast.taken[i] = TpNewNode
    /\ \A t \in TpTries, i \in DOMAIN nodePool :
          nodePool[i] \notin TpReachable(tpNodes, tpRoots[t])
    /\ \A i, k \in DOMAIN nodePool : nodePool[i] = nodePool[k] => i = k

\* an insert was given the one node that a clear could return to the pool
\* before the pool reached its limit
C29_Witness ==
    /\ tpLast.op = "insert"
    /\ tpLast.taken # <<>>
    /\ PoolLength(TpHeap) = NODE_POOL_LIMIT - 1
    /\ tpSpare = NODE_POOL_LIMIT - 1
    /\ nodePool = <<>>
    /\ \E t \in TpTries : tpRoots[t] > Cardinality(TpTries)


(***************************************************************************)
(* Semaphore (the sync manager's concurrency limit).  Every acquire(task)  *)
(* call is a coroutine: "idle" before the call, "waiting" with its         *)
(* resolver in waitQueue, "granted" once waitForPermit's promise is        *)
(* resolved and acquire has yet to resume, "running" while the task's      *)
(* promise is pending, "settled" when it has settled and the finally block *)
(* has yet to run, "done" after release().                                 *)
(***************************************************************************)
MaxPermits  == 2      \* largest concurrency a semaphore is constructed with
MaxSemTasks == 3      \* acquire calls made on a semaphore

SmTaskIds == 1..MaxSemTasks

\* mutant of Release: a permit is also counted when a waiter is woken
ReleaseAlsoCounts(permits, queue) ==
    IF Len(queue) > 0
    THEN [permits |-> permits + 1, queue |-> Tail(queue), woken |-> <<Head(queue)>>]
    ELSE [permits |-> permits + 1, queue |-> queue, woken |-> <<>>]

\* release(): the permits and the queue afterwards, and the task whose
\* resolver was called
Release(permits, queue) ==
    IF Len(queue) > 0
    THEN [permits |-> permits, queue |-> Tail(queue), woken |-> <<Head(queue)>>]
    ELSE [permits |-> permits + 1, queue |-> queue, woken |-> <<>>]

InitSem ==
    /\ smInitial \in 1..MaxPermits
    /\ smPermits = smInitial
    /\ waitQueue = <<>>
    /\ smTasks = [t \in SmTaskIds |-> [pc |-> "idle", waited |-> FALSE, threw |-> FALSE]]
    /\ BloomIdle
    /\ TrieIdle
    /\ MemIdle
    /\ CmIdle
    /\ CbIdle
    /\ MergeIdle
    /\ RgIdle
    /\ WbIdle
    /\ HpIdle
    /\ DcIdle
    /\ AdminIdle
    /\ TpIdle
    /\ FcIdle

\* acquire(task) up to its await: waitForPermit() takes a permit or queues
\* its resolver
SmAcquire(t) ==
    /\ smTasks[t].pc = "idle"
    /\ IF smPermits > 0
       THEN /\ smPermits' = smPermits - 1
            /\ smTasks' = [smTasks EXCEPT ![t].pc = "granted"]
            /\ UNCHANGED waitQueue
       ELSE /\ waitQueue' = Append(waitQueue, t)
            /\ smTasks' = [smTasks EXCEPT ![t].pc = "waiting", ![t].waited = TRUE]
            /\ UNCHANGED smPermits
    /\ UNCHANGED <<smInitial, nonSmVars>>

\* acquire resumes after await this.waitForPermit() and calls task()
SmRun(t) ==
    /\ smTasks[t].pc = "granted"
    /\ smTasks' = [smTasks EXCEPT ![t].pc = "running"]
    /\ UNCHANGED <<smPermits, waitQueue, smInitial, nonSmVars>>

\* the task's promise settles: fulfilled, or rejected (the task threw)
SmSettle(t, threw) ==
    /\ smTasks[t].pc = "running"
    /\ smTasks' = [smTasks EXCEPT ![t].pc = "settled", ![t].threw = threw]
    /\ UNCHANGED <<smPermits, waitQueue, smInitial, nonSmVars>>

\* the finally block of acquire: this.release()
SmFinally(t) ==
    /\ smTasks[t].pc = "settled"
    /\ \E r \in {Release(smPermits, waitQueue)} :
          /\ smPermits' = r.permits
          /\ waitQueue' = r.queue
          /\ smTasks' = [u \in SmTaskIds |->
                           IF u = t THEN [smTasks[u] EXCEPT !.pc = "done"]
                           ELSE IF r.woken = <<u>> THEN [smTasks[u] EXCEPT !.pc = "granted"]
                           ELSE smTasks[u]]
    /\ UNCHANGED <<smInitial, nonSmVars>>

SmAcquireAny == \E t \in SmTaskIds : SmAcquire(t)
SmRunAny     == \E t \in SmTaskIds : SmRun(t)
SmSettleAny  == \E t \in SmTaskIds, threw \in BOOLEAN : SmSettle(t, threw)
SmFinallyAny == \E t \in SmTaskIds : SmFinally(t)

NextSem ==
    \/ SmAcquireAny
    \/ SmRunAny
    \/ SmSettleAny
    \/ SmFinallyAny

\* the event loop runs every continuation that is ready, and every running
\* task settles
SpecSem ==
    /\ InitSem
    /\ [][NextSem]_vars
    /\ \A t \in SmTaskIds : WF_vars(SmRun(t))
    /\ \A t \in SmTaskIds : WF_vars(\E threw \in BOOLEAN : SmSettle(t, threw))
    /\ \A t \in SmTaskIds : WF_vars(SmFinally(t))

\* the tasks at one of the given places
SmAt(pcs) == {t \in SmTaskIds : smTasks[t].pc \in pcs}

\* at most `permits` tasks run at once, a permit is held by exactly the calls
\* between grant and release, and nobody waits while a permit is free
SmSafe ==
    /\ Cardinality(SmAt({"running"})) <= smInitial
    /\ smPermits >= 0
    /\ smPermits + Cardinality(SmAt({"granted", "running", "settled"})) = smInitial
    /\ waitQueue # <<>> => smPermits = 0
    /\ {waitQueue[i] : i \in DOMAIN waitQueue} = SmAt({"waiting"})
    /\ SmAt({"idle", "done"}) = SmTaskIds => smPermits = smInitial

\* a waiter is woken only from the head of the queue, and only by a release
SmFifo ==
    [][ \A t \in SmTaskIds :
          (smTasks[t].pc = "waiting" /\ smTasks'[t].pc # "waiting") =>
              /\ t = Head(waitQueue)
              /\ smTasks'[t].pc = "granted"
              /\ waitQueue' = Tail(waitQueue)
              /\ smPermits' = smPermits ]_vars

\* C30: at most `permits` tasks run at the same time; every submitted task
\* eventually runs, provided running tasks settle (no lost wake-up, FIFO
\* hand-off); a task that throws still releases its permit; once all tasks
\* have settled the permit count is the initial one.
C30_Semaphore ==
    /\ []SmSafe
    /\ SmFifo
    /\ \A t \in SmTaskIds : (smTasks[t].pc \in {"waiting", "granted"}) ~> (smTasks[t].pc = "running")
    /\ \A t \in SmTaskIds : (smTasks[t].pc = "running") ~> (smTasks[t].pc = "done")

\* every task was submitted and has settled, one of them after waiting for a
\* permit that a task which threw handed over
C30_Witness ==
    /\ SmAt({"done"}) = SmTaskIds
    /\ \E t \in SmTaskIds : smTasks[t].threw
    /\ \E t \in SmTaskIds : smTasks[t].waited
    /\ smPermits = smInitial


(***************************************************************************)
(* The domain checker as the facade constructs it: for each strategy, with *)
(* the indexes buildIndex builds for that strategy from the three sets,    *)
(* and subdomain checking enabled.                                         *)
(***************************************************************************)

\* the lists: a disposable domain alone, also block-listed, also allow-listed
StCorpora ==
    LET ba == <<"b", ".", "a">>
    IN  { [disposable |-> {ba}, allowlist |-> {},   blacklist |-> {}],
          [disposable |-> {ba}, allowlist |-> {},   blacklist |-> {ba}],
          [disposable |-> {ba}, allowlist |-> {ba}, blacklist |-> {}] }

\* the checker the facade constructs for a strategy over the sets
FacadeChecker(sets, indexingStrategy) ==
    NewDomainChecker(sets, FcConfig(indexingStrategy, FALSE),
                     BuildIndex(indexingStrategy, sets, NoIndex), indexingStrategy)

InitStrategy ==
    /\ dcTrieImpl = "simple"
    /\ \E sets \in StCorpora, indexingStrategy \in Strategies :
          dcChecker = FacadeChecker(sets, indexingStrategy)
    /\ dcLast = DcCall("new", <<>>, FALSE, <<>>)
    /\ BloomIdle
    /\ MergeIdle
    /\ RgIdle
    /\ SmIdle
    /\ TpIdle
    /\ WbIdle
    /\ HpIdle
    /\ TrieIdle
    /\ MemIdle
    /\ CmIdle
    /\ CbIdle
    /\ AdminIdle
    /\ FcIdle

NextStrategy ==
    \/ DcCheckDisposableDomainAny
    \/ DcClearCache

SpecStrategy == InitStrategy /\ [][NextStrategy]_vars

\* isMatch, matchType and confidence of a domain result
MatchOf(result) ==
    [isMatch |-> result.isMatch, matchType |-> result.matchType,
     confidence |-> result.confidence]

\* C31: strategy equivalence -- over the same sets, with the indexes the
\* facade builds for each strategy, checkDisposableDomain(d) returns the same
\* isMatch, matchType and confidence under hash, trie, bloom and hybrid.
C31_StrategyEquivalence ==
    dcLast.op = "checkDisposableDomain" =>
        \A indexingStrategy \in Strategies :
            MatchOf(dcLast.results[1]) =
                MatchOf(CheckDisposableDomain(FacadeChecker(SetsOf(dcChecker), indexingStrategy),
                                              dcLast.domains[1]).result)


\* C32: no false negatives at the facade -- once initialisation has completed
\* with disposable set D, every checkEmail for an address whose domain is in
\* D and is neither allow-listed nor trusted returns isDisposable = TRUE,
\* whatever checkEmail calls were issued before initialisation completed.
C32_NoFalseNegativesAfterInit ==
    [][ ( /\ fcPc = "ready"
          /\ fcLast'.op = "checkEmail"
          /\ ~fcLast'.rejected
          /\ fcLast'.results[1].isValid
          /\ fcLast'.results[1].domain \in fcSets.disposable
          /\ fcLast'.results[1].domain \notin fcSets.allowlist \cup fcConfig.trustedDomains )
        => fcLast'.results[1].isDisposable ]_vars


\* C33: checkDisposableDomainsBatch agrees with the single lookup -- for every
\* domain of the input it returns, and stores in the domain cache, the
\* isMatch, matchType and confidence that checkDisposableDomain computes for
\* that domain, so a single lookup returns the same before and after a batch.
C33_BatchAgreesWithSingle ==
    [][ dcLast'.op = "checkDisposableDomainsBatch" =>
          /\ ~dcLast'.rejected
          /\ \A i \in DOMAIN dcLast'.domains :
                LET single == MatchOf(PerformDisposableCheck(dcChecker, dcLast'.domains[i]))
                IN  /\ MatchOf(dcLast'.results[i]) = single
                    /\ MatchOf(CheckDisposableDomain(dcChecker', dcLast'.domains[i]).result)
                          = single ]_vars


(***************************************************************************)
(* The DomainChecker with validated list mutations (constructor arguments: *)
(* the three sets, trustedDomains, enableSubdomainChecking, an optional    *)
(* trie and Bloom filter, the strategy).  It keeps no domain cache; its    *)
(* trie is the simple TrieIndex.  The record is that of NewDomainChecker.  *)
(***************************************************************************)

\* for (let i = 1; i < parts.length; i++): parts.slice(i).join(".") is in set
RECURSIVE ParentListed(_, _, _)
ParentListed(parts, i, set) ==
    IF i >= Len(parts) THEN FALSE
    ELSE IF Join(SubSeq(parts, i + 1, Len(parts))) \in set THEN TRUE
    ELSE ParentListed(parts, i + 1, set)

\* checkAllowlist(domain)
ListCheckAllowlist(chk, domain) ==
    IF domain \in chk.allowlist THEN TRUE
    ELSE IF domain \in chk.trusted THEN TRUE
    ELSE chk.enableSubdomainChecking
         /\ ParentListed(Split(domain), 1, chk.allowlist \cup chk.trusted)

\* checkBlacklist(domain)
ListCheckBlacklist(chk, domain) ==
    IF domain \in chk.blacklist
    THEN [isMatch |-> TRUE, matchType |-> "exact", confidence |-> 100, source |-> ""]
    ELSE IF chk.enableSubdomainChecking /\ ParentListed(Split(domain), 1, chk.blacklist)
    THEN [isMatch |-> TRUE, matchType |-> "subdomain", confidence |-> 90, source |-> ""]
    ELSE NoMatch

\* checkDisposableDomain(domain)
ListCheckDisposableDomain(chk, domain) ==
    LET trieResult == TrieSearch(chk.trie, TrieParts("simple", domain))
    IN  IF chk.hasBloom /\ ~SimpleContains(chk.bloom, domain) THEN NoMatch
        ELSE IF domain \in chk.disposable
        THEN [ isMatch |-> TRUE, matchType |-> "exact", confidence |-> 100,
               source |-> "database" ]
        ELSE IF /\ chk.enableSubdomainChecking
                /\ chk.indexingStrategy # "hash"
                /\ chk.hasTrie
                /\ trieResult.found
                /\ trieResult.source = "disposable"
        THEN [ isMatch |-> TRUE, matchType |-> trieResult.matchType,
               confidence |-> trieResult.confidence, source |-> "trie-index" ]
        ELSE IF /\ chk.enableSubdomainChecking
                /\ chk.indexingStrategy = "hash"
                /\ ParentListed(Split(domain), 1, chk.disposable)
        THEN [ isMatch |-> TRUE, matchType |-> "subdomain", confidence |-> 85,
               source |-> "subdomain-check" ]
        ELSE NoMatch

\* addToAllowlist(domain) / addToBlacklist(domain)
AddToList(chk, list, domain) ==
    IF ~IsValidDomain(domain) THEN chk
    ELSE LET lower  == ToLowerCase(domain)
             listed == IF list = "allowlist"
                       THEN [chk EXCEPT !.allowlist = @ \cup {lower}]
                       ELSE [chk EXCEPT !.blacklist = @ \cup {lower}]
         IN  IF chk.hasTrie /\ chk.indexingStrategy # "hash"
             THEN [listed EXCEPT !.trie =
                      TrieInsert(@, TrieParts("simple", lower),
                                 IF list = "allowlist" THEN "allowed" ELSE "blacklisted")]
             ELSE listed

\* removeFromAllowlist(domain) / removeFromBlacklist(domain)
RemoveFromList(chk, list, domain) ==
    IF list = "allowlist"
    THEN [chk EXCEPT !.allowlist = @ \ {ToLowerCase(domain)}]
    ELSE [chk EXCEPT !.blacklist = @ \ {ToLowerCase(domain)}]

\* what the checker says of a domain
Classification(chk, domain) ==
    [ allowed     |-> ListCheckAllowlist(chk, domain),
      blacklisted |-> MatchOf(ListCheckBlacklist(chk, domain)),
      disposable  |-> MatchOf(ListCheckDisposableDomain(chk, domain)) ]

\* the domains added and removed: a listed one, in lower and upper case, an
\* unlisted one, and one isValidDomain rejects
RtDomains == { <<"b", ".", "a">>, <<"B", ".", "a">>, <<"a", ".", "a">>, <<"-", "a">> }

\* the domains classified: lower-case domains added, and a subdomain
RtQueries == { <<"b", ".", "a">>, <<"a", ".", "a">>, <<"a", ".", "b", ".", "a">> }

Classify(chk) == [domain \in RtQueries |-> Classification(chk, domain)]

\* the last call: for a mutation, whether the domain was in the list and
\* what the checker said of every domain before the call
RtCall(op, list, domain, listed, before, result) ==
    [op |-> op, list |-> list, domain |-> domain, listed |-> listed, before |-> before,
     result |-> result]

InitRoundTrip ==
    /\ dcTrieImpl = "simple"
    /\ \E indexingStrategy \in Strategies, withBloom \in BOOLEAN :
          dcChecker =
              NewDomainChecker(
                  DcSets({<<"b", ".", "a">>}),
                  FcConfig(indexingStrategy, FALSE),
                  [BuildIndex(indexingStrategy, DcSets({<<"b", ".", "a">>}), NoIndex)
                      EXCEPT !.hasBloom = @ /\ withBloom],
                  indexingStrategy)
    /\ dcLast = RtCall("new", "", <<>>, FALSE, <<>>, <<>>)
    /\ BloomIdle
    /\ MergeIdle
    /\ RgIdle
    /\ SmIdle
    /\ TpIdle
    /\ WbIdle
    /\ HpIdle
    /\ TrieIdle
    /\ MemIdle
    /\ CmIdle
    /\ CbIdle
    /\ AdminIdle
    /\ FcIdle

RtListed(chk, list, domain) ==
    ToLowerCase(domain) \in (IF list = "allowlist" THEN chk.allowlist ELSE chk.blacklist)

RtAdd(list, domain) ==
    /\ dcChecker' = AddToList(dcChecker, list, domain)
    /\ dcLast' = RtCall("add", list, domain, RtListed(dcChecker, list, domain),
                        Classify(dcChecker), <<>>)
    /\ UNCHANGED <<dcTrieImpl, nonDcVars>>

RtRemove(list, domain) ==
    /\ dcChecker' = RemoveFromList(dcChecker, list, domain)
    /\ dcLast' = RtCall("remove", list, domain, RtListed(dcChecker, list, domain),
                        Classify(dcChecker), <<>>)
    /\ UNCHANGED <<dcTrieImpl, nonDcVars>>

RtCheck(domain) ==
    /\ dcLast' = RtCall("checkDisposableDomain", "", domain, FALSE, <<>>,
                        ListCheckDisposableDomain(dcChecker, domain))
    /\ UNCHANGED <<dcChecker, dcTrieImpl, nonDcVars>>

RtAddAny    == \E list \in AdminLists, domain \in RtDomains : RtAdd(list, domain)
RtRemoveAny == \E list \in AdminLists, domain \in RtDomains : RtRemove(list, domain)
RtCheckAny  == \E domain \in RtQueries : RtCheck(domain)

NextRoundTrip ==
    \/ RtAddAny
    \/ RtRemoveAny
    \/ RtCheckAny

SpecRoundTrip == InitRoundTrip /\ [][NextRoundTrip]_vars

\* C34: add/remove round trip -- for a valid domain d that is not in the
\* list, addToAllowlist(d) followed by removeFromAllowlist(d) leaves every
\* domain classified as it was before the add, under every strategy; the
\* same for addToBlacklist(d) followed by removeFromBlacklist(d).
C34_AddRemoveRoundTrip ==
    [][ ( /\ dcLast.op = "add"
          /\ dcLast'.op = "remove"
          /\ dcLast'.list = dcLast.list
          /\ dcLast'.domain = dcLast.domain
          /\ IsValidDomain(dcLast.domain)
          /\ ~dcLast.listed )
        => Classify(dcChecker') = dcLast.before ]_vars


\* C35: MemoryCache.has agrees with get -- has(key) is true exactly when a
\* get(key) issued at the same instant returns a result, so has(key) is false
\* for an entry whose TTL has elapsed.
C35_HasAgreesWithGet ==
    [][ (memLast'.op = "has" /\ now' = now) =>
            memLast'.hit = MemGet(memCache, memLast'.key, now).hit ]_vars


\* C36: overwriting a key that is already cached never evicts a different key
\* -- a set(key, ...) on a key that is present leaves the set of cached keys
\* unchanged, also when the cache is at capacity.
C36_OverwriteKeepsKeys ==
    [][ (memLast'.op = "set" /\ now' = now /\ memLast'.key \in MemKeysOf(memCache)) =>
            MemKeysOf(memCache') = MemKeysOf(memCache) ]_vars


(***************************************************************************)
(* The pooled TrieIndex on arbitrary strings: insert, search and has of    *)
(* the empty string and of strings with a leading, trailing or doubled     *)
(* dot.  A call whose splitDomainReverse loop does not end never returns,  *)
(* and nothing is called after it.                                         *)
(***************************************************************************)
TrieStrings ==
    { <<>>, <<".">>, <<"a">>, <<"a", ".">>, <<".", "a">>, <<"a", ".", ".", "a">>,
      <<"b", ".", "a">>, <<"a", ".", "b", ".", "a">> }

\* has(domain), given the reversed labels
TrieHas(t, parts) == parts \in DOMAIN t /\ t[parts].isEndOfDomain

\* the last call: whether it returned, the labels its for loop walked, and
\* what search or has returned
TsCall(op, domain, source, returns, visited, result) ==
    [op |-> op, domain |-> domain, source |-> source, returns |-> returns,
     visited |-> visited, result |-> result]

InitTrieStrings ==
    /\ trieImpl = "pooled"
    /\ trie = EmptyTrie
    /\ trieInserted = <<>>
    /\ trieLast = TsCall("none", <<>>, "", TRUE, 0, <<>>)
    /\ BloomIdle
    /\ MemIdle
    /\ CmIdle
    /\ CbIdle
    /\ MergeIdle
    /\ RgIdle
    /\ SmIdle
    /\ TpIdle
    /\ WbIdle
    /\ HpIdle
    /\ DcIdle
    /\ AdminIdle
    /\ FcIdle

\* const parts = this.splitDomainReverse(domain, domain.lastIndexOf("."))
TsSplit(domain) == SplitDomainReverse(domain, LastIndexOf(domain, Dot, Len(domain)))

TsInsert(domain, source) ==
    /\ trieLast.returns
    /\ (domain \in DOMAIN trieInserted \/ Cardinality(DOMAIN trieInserted) < MaxTrieDomains)
    /\ \E split \in {TsSplit(domain)} :
          IF split.returns
          THEN /\ trie' = TrieInsert(trie, split.parts, source)
               /\ trieInserted' = [d \in DOMAIN trieInserted \cup {domain} |->
                                      IF d = domain THEN source ELSE trieInserted[d]]
               /\ trieLast' = TsCall("insert", domain, source, TRUE, Len(split.parts), <<>>)
          ELSE /\ trieLast' = TsCall("insert", domain, source, FALSE, 0, <<>>)
               /\ UNCHANGED <<trie, trieInserted>>
    /\ UNCHANGED <<trieImpl, nonTrieVars>>

TsSearch(domain) ==
    /\ trieLast.returns
    /\ \E split \in {TsSplit(domain)} :
          trieLast' = IF split.returns
                      THEN TsCall("search", domain, "", TRUE, Len(split.parts),
                                  TrieSearch(trie, split.parts))
                      ELSE TsCall("search", domain, "", FALSE, 0, <<>>)
    /\ UNCHANGED <<trie, trieInserted, trieImpl, nonTrieVars>>

TsHas(domain) ==
    /\ trieLast.returns
    /\ \E split \in {TsSplit(domain)} :
          trieLast' = IF split.returns
                      THEN TsCall("has", domain, "", TRUE, Len(split.parts),
                                  TrieHas(trie, split.parts))
                      ELSE TsCall("has", domain, "", FALSE, 0, <<>>)
    /\ UNCHANGED <<trie, trieInserted, trieImpl, nonTrieVars>>

TsInsertAny == \E domain \in TrieStrings, source \in TrieSources : TsInsert(domain, source)
TsSearchAny == \E domain \in TrieStrings : TsSearch(domain)
TsHasAny    == \E domain \in TrieStrings : TsHas(domain)

NextTrieStrings ==
    \/ TsInsertAny
    \/ TsSearchAny
    \/ TsHasAny

SpecTrieStrings == InitTrieStrings /\ [][NextTrieStrings]_vars

\* the labels of a string, top-level label first
LabelsOf(str) == Reverse(Split(str))

\* an inserted string whose label path the string's labels start with
RegisteredPath(str) ==
    \E d \in DOMAIN trieInserted :
        /\ Len(LabelsOf(d)) <= Len(LabelsOf(str))
        /\ SubSeq(LabelsOf(str), 1, Len(LabelsOf(d))) = LabelsOf(d)

\* C37: insert, search and has terminate on every input string, the empty
\* string and strings with a leading, trailing or doubled "." included,
\* visiting at most one node per label; the empty string and strings that
\* yield no registered label path return no match.
C37_TrieTerminates ==
    trieLast.op \in {"insert", "search", "has"} =>
        /\ trieLast.returns
        /\ trieLast.visited <= Len(Split(trieLast.domain))
        /\ (trieLast.op = "search" /\ ~RegisteredPath(trieLast.domain))
              => ~trieLast.result.found
        /\ (trieLast.op = "has" /\ ~RegisteredPath(trieLast.domain))
              => ~trieLast.result


(***************************************************************************)
(* CacheFactoryRegistry: the static Map of factories and the default type. *)
(* A factory is known by the cache it creates.                             *)
(***************************************************************************)
RgTypes     == {"memory", "noop", "custom", "unknown"}
RgFactories == {"MemoryCache", "NoOpCache", "CustomCache"}

\* the static initialisation block: the built-in factories; "memory" is the
\* default
InitRegistry ==
    /\ factories = [type \in {"memory", "noop"} |->
                       IF type = "memory" THEN "MemoryCache" ELSE "NoOpCache"]
    /\ defaultFactory = "memory"
    /\ rgLast = [op |-> "static", type |-> "", returned |-> TRUE, cache |-> ""]
    /\ BloomIdle
    /\ MergeIdle
    /\ SmIdle
    /\ TpIdle
    /\ WbIdle
    /\ HpIdle
    /\ TrieIdle
    /\ MemIdle
    /\ CmIdle
    /\ CbIdle
    /\ AdminIdle
    /\ DcIdle
    /\ FcIdle

\* create(type, config): an unregistered type calls create(defaultFactory);
\* tried holds the types of the calls on the stack, and a type met again
\* recurses until the call stack is exhausted, which throws a RangeError
RECURSIVE Create(_, _, _, _)
Create(registered, default, type, tried) ==
    IF type \in DOMAIN registered
    THEN [returned |-> TRUE, cache |-> registered[type]]
    ELSE IF type \in tried
    THEN [returned |-> FALSE, cache |-> ""]
    ELSE Create(registered, default, default, tried \cup {type})

RgCall(op, type, returned, cache) ==
    [op |-> op, type |-> type, returned |-> returned, cache |-> cache]

\* register(type, factory)
RgRegister(type, factory) ==
    /\ factories' = [t \in DOMAIN factories \cup {type} |->
                        IF t = type THEN factory ELSE factories[t]]
    /\ rgLast' = RgCall("register", type, TRUE, "")
    /\ UNCHANGED <<defaultFactory, nonRgVars>>

\* unregister(type)
RgUnregister(type) ==
    /\ factories' = [t \in DOMAIN factories \ {type} |-> factories[t]]
    /\ rgLast' = RgCall("unregister", type, TRUE, "")
    /\ UNCHANGED <<defaultFactory, nonRgVars>>

\* setDefault(type): throws for a type that is not registered
RgSetDefault(type) ==
    /\ defaultFactory' = IF type \in DOMAIN factories THEN type ELSE defaultFactory
    /\ rgLast' = RgCall("setDefault", type, type \in DOMAIN factories, "")
    /\ UNCHANGED <<factories, nonRgVars>>

\* create(type)
RgCreate(type) ==
    /\ \E r \in {Create(factories, defaultFactory, type, {})} :
          rgLast' = RgCall("create", type, r.returned, r.cache)
    /\ UNCHANGED <<factories, defaultFactory, nonRgVars>>

RgRegisterAny   == \E type \in RgTypes, factory \in RgFactories : RgRegister(type, factory)
RgUnregisterAny == \E type \in RgTypes : RgUnregister(type)
RgSetDefaultAny == \E type \in RgTypes : RgSetDefault(type)
RgCreateAny     == \E type \in RgTypes : RgCreate(type)

NextRegistry ==
    \/ RgRegisterAny
    \/ RgUnregisterAny
    \/ RgSetDefaultAny
    \/ RgCreateAny

SpecRegistry == InitRegistry /\ [][NextRegistry]_vars

\* C38: CacheFactoryRegistry.create returns a cache for every type string
\* after any sequence of register, unregister and setDefault calls -- an
\* unknown type falls back to the default factory, and the default factory
\* type is always registered.
C38_CreateAlwaysReturns ==
    /\ defaultFactory \in DOMAIN factories
    /\ rgLast.op = "create" =>
          /\ rgLast.returned
          /\ rgLast.cache = IF rgLast.type \in DOMAIN factories
                            THEN factories[rgLast.type]
                            ELSE factories[defaultFactory]

=============================================================================
